---------------------------- MODULE Spec2Model ----------------------------
(***************************************************************************)
(* Sahara Raiders: the world/economy simulation (game_data.py), the        *)
(* caravan entity (caravan.py), the raid resolver (raid_screen.py) and the *)
(* camp, tech and clan screen handlers as a state machine, with one        *)
(* specification per subsystem over the same variables.                    *)
(*                                                                         *)
(* Numbers.  The code computes with Python floats.  The model keeps every  *)
(* quantity an integer:                                                    *)
(*   - resource rates and accumulators are counted in units of 1/RateScale *)
(*     (0.05), the finest rate of the code, and dt in whole seconds;       *)
(*   - combat strengths are counted in units of 1/StrengthScale, the       *)
(*     common denominator of the hero and terrain factors;                 *)
(*   - int(x * p) for a loot proportion p is computed as the double        *)
(*     product truncates (IntOfProduct).                                   *)
(* Python's None is the string "None" (ids: NoCaravan).                    *)
(***************************************************************************)
EXTENDS Integers, Sequences, FiniteSets, TLC

VARIABLES
    game_data,      \* the GameData object: a record of its fields
    caravans,       \* the Caravan objects alive in the process: id -> fields
    raid_screen,    \* the RaidScreen object: target, squad, heroes, resolved
    save_file,      \* sahara_save.json: its state and the data saved in it
    monetization,   \* monetization.monetization_manager: gems
    now,            \* time.time(), in seconds
    call,           \* the last operation executed, its arguments and result
    history         \* counters of the run: bounding and observation only

vars == <<game_data, caravans, raid_screen, save_file, monetization, now,
          call, history>>

----------------------------------------------------------------------------
(* Bounds of the model *)

\* loot values 0..MaxLoot are tried by the loot specification
MaxLoot == 100
\* number of Caravan objects a run may construct
MaxCaravans == 2
\* execute_raid calls a run may make
MaxRaids == 2

----------------------------------------------------------------------------
(* Vocabulary *)

None == "None"
NoCaravan == 0

ResourceNames == {"water", "salt", "gold", "spices", "slaves"}

CARAVAN_TYPES == <<"salt", "gold", "spices", "imperial", "sandworm">>

CaravanTypeSet == {CARAVAN_TYPES[i] : i \in 1..Len(CARAVAN_TYPES)}

Max(a, b) == IF a >= b THEN a ELSE b

Min(a, b) == IF a <= b THEN a ELSE b

RECURSIVE Pow2(_)
Pow2(e) == IF e = 0 THEN 1 ELSE 2 * Pow2(e - 1)

RECURSIVE SumOver(_, _)
\* sum(d.values()) of a dict d given as a function; keys is its key set
SumOver(f, keys) ==
    IF keys = {} THEN 0
    ELSE LET k == CHOOSE x \in keys : TRUE
         IN f[k] + SumOver(f, keys \ {k})

----------------------------------------------------------------------------
(* caravan.py: TYPE_CONFIGS *)

EscortsRange(t) ==
    CASE t = "salt"     -> <<3, 8>>
      [] t = "gold"     -> <<8, 15>>
      [] t = "spices"   -> <<15, 25>>
      [] t = "imperial" -> <<25, 40>>
      [] t = "sandworm" -> <<100, 150>>

LootRange(t) ==
    CASE t = "salt"     -> <<50, 150>>
      [] t = "gold"     -> <<200, 500>>
      [] t = "spices"   -> <<500, 1000>>
      [] t = "imperial" -> <<1000, 2000>>
      [] t = "sandworm" -> <<5000, 10000>>

MoveInterval(t) ==
    CASE t = "salt"     -> 45
      [] t = "gold"     -> 40
      [] t = "spices"   -> 35
      [] t = "imperial" -> 30
      [] t = "sandworm" -> 60

\* 'loot_types' in the dict's insertion order; proportions in tenths
LootTypes(t) ==
    CASE t = "salt"     -> << <<"salt", 8>>, <<"gold", 2>> >>
      [] t = "gold"     -> << <<"gold", 9>>, <<"spices", 1>> >>
      [] t = "spices"   -> << <<"spices", 7>>, <<"gold", 3>> >>
      [] t = "imperial" -> << <<"gold", 5>>, <<"spices", 5>> >>
      [] t = "sandworm" -> << <<"gold", 4>>, <<"spices", 4>>, <<"slaves", 2>> >>

IsBossType(t) == t = "sandworm"

SandwormHealth == 10000

\* config.get('health', self.escorts * 10)
ConfigHealth(t, escorts) == IF t = "sandworm" THEN SandwormHealth ELSE escorts * 10

----------------------------------------------------------------------------
(* caravan.py: get_loot_distribution *)

\* The double nearest 0.7 lies below 0.7 by 0.4 * 2^-53.  For x = 10k the
\* exact product 7k is an integer and the double product rounds to the
\* double just below it exactly when 2^e < 4k and 7k < 2^(e+1) for some e
\* (k = 9, 17..18, 33..36, 65..73, ...).  For the other proportions of
\* TYPE_CONFIGS (0.1 .. 0.9 but 0.7) the product truncates to the exact
\* floor for every x up to 12000.
RoundsBelow(x, tenths) ==
    /\ tenths = 7
    /\ x % 10 = 0
    /\ \E e \in 0..20 : Pow2(e) < 4 * (x \div 10) /\ 7 * (x \div 10) < Pow2(e + 1)

\* int(x * p), p = tenths / 10 a double
IntOfProduct(x, tenths) ==
    IF RoundsBelow(x, tenths) THEN ((x * tenths) \div 10) - 1
    ELSE (x * tenths) \div 10

NoLoot == [k \in ResourceNames |-> 0]

RECURSIVE LootLoop(_, _, _, _)
\* the for loop of get_loot_distribution from entry i on; a kind is a key
\* of the dict `loot` iff its amount is > 0
LootLoop(types, i, remaining_value, loot) ==
    IF i > Len(types) THEN [remaining_value |-> remaining_value, loot |-> loot]
    ELSE LET amount == IntOfProduct(remaining_value, types[i][2])
         IN IF amount > 0
            THEN LootLoop(types, i + 1, remaining_value - amount,
                          [loot EXCEPT ![types[i][1]] = amount])
            ELSE LootLoop(types, i + 1, remaining_value, loot)

\* max(self.loot_types.keys(), key=...): the first kind of largest proportion
PrimaryType(t) ==
    LET types == LootTypes(t)
        i == CHOOSE j \in 1..Len(types) :
                 /\ \A k \in 1..Len(types) : types[k][2] <= types[j][2]
                 /\ \A k \in 1..(j - 1) : types[k][2] < types[j][2]
    IN types[i][1]

\* The result of get_loot_distribution: `estimated` for an unscouted caravan,
\* else the per-kind dict; raised = "KeyError" when loot[primary_type] += ...
\* finds no such key.
GetLootDistribution(c) ==
    IF ~c.is_scouted
    THEN [raised |-> None, estimated |-> TRUE, value |-> c.loot_value, loot |-> NoLoot]
    ELSE LET done == LootLoop(LootTypes(c.caravan_type), 1, c.loot_value, NoLoot)
             primary_type == PrimaryType(c.caravan_type)
         IN IF done.loot[primary_type] = 0
            THEN [raised |-> "KeyError", estimated |-> FALSE, value |-> 0, loot |-> NoLoot]
            ELSE [raised |-> None, estimated |-> FALSE, value |-> 0,
                  loot |-> [done.loot EXCEPT ![primary_type] = @ + done.remaining_value]]

----------------------------------------------------------------------------
(* caravan.py: Caravan.__init__, scout_caravan *)

NoDamage == [k \in {} |-> 0]

\* Caravan(q, r, caravan_type): escorts and loot_value are the random draws of
\* _generate_properties, path the one of _generate_movement_path
NewCaravan(q, r, t, escorts, loot_value, path, time) ==
    [q |-> q, r |-> r, caravan_type |-> t,
     escorts |-> escorts, loot_value |-> loot_value,
     movement_path |-> path, last_move_time |-> time,
     is_scouted |-> FALSE,
     max_health |-> ConfigHealth(t, escorts),
     current_health |-> ConfigHealth(t, escorts),
     clan_damage |-> NoDamage]

ScoutCaravanObj(c) == [c EXCEPT !.is_scouted = TRUE]

\* get_combat_strength: type_bonus.get(type, 0)
TypeBonus(t) ==
    CASE t = "salt"     -> 1
      [] t = "gold"     -> 3
      [] t = "spices"   -> 5
      [] t = "imperial" -> 8
      [] OTHER          -> 0

GetCombatStrength(c) == c.escorts * 2 + TypeBonus(c.caravan_type)

----------------------------------------------------------------------------
(* game_data.py: GameData.__init__ defaults *)

\* one resource per second, in rate units (the finest rate, 0.05, is 1)
RateScale == 20

\* "100 units = 1 resource", in accumulator units
TimerThreshold == 100 * RateScale

ResourceOrder == <<"water", "salt", "gold", "spices", "slaves">>

DefaultResources ==
    [k \in ResourceNames |->
        CASE k = "water" -> 100 [] k = "salt" -> 50 [] k = "gold" -> 25
          [] k = "spices" -> 0 [] k = "slaves" -> 0]

DefaultRates ==
    [k \in ResourceNames |->
        CASE k = "water" -> RateScale [] k = "salt" -> RateScale \div 2
          [] k = "gold" -> RateScale \div 10 [] k = "spices" -> RateScale \div 20
          [] k = "slaves" -> 0]

DefaultTimers == [k \in ResourceNames |-> 0]

\* _create_heroes: The Veil, Iron Camel, Sand Viper, Oasis Scout, Slave Driver
\* (list index i of the code is i + 1 here)
NumHeroes == 5

HeroBonus(i, bonus_type) ==
    CASE i = 1 /\ bonus_type = "raid_success"           -> 20
      [] i = 2 /\ bonus_type = "raid_defense"           -> 30
      [] i = 3 /\ bonus_type = "raid_damage"            -> 25
      [] i = 4 /\ bonus_type = "scouting_speed"         -> 40
      [] i = 5 /\ bonus_type = "recruitment_efficiency" -> 30
      [] OTHER -> 0

DefaultHeroes == [i \in 1..NumHeroes |-> [level |-> 1, available |-> TRUE]]

NoBuildings == [p \in {} |-> 0]

NoTechs == [b \in {} |-> 0]

NoFeatures == [h \in {} |-> None]

\* the fields set by GameData.__init__ before initialize_world / load_game
DefaultGameData(time) ==
    [resources |-> DefaultResources,
     resource_rates |-> DefaultRates,
     resource_timers |-> DefaultTimers,
     raiders_available |-> 10,
     max_raiders |-> 50,
     heroes |-> DefaultHeroes,
     camp_buildings |-> NoBuildings,
     unlocked_techs |-> NoTechs,
     player_id |-> None,
     clan_id |-> None,
     world_boss_active |-> FALSE,
     world_boss_end_time |-> 0,
     world_boss_caravan |-> NoCaravan,
     clan_damage_contributed |-> 0,
     daily_event_active |-> FALSE,
     daily_event_end_time |-> 0,
     daily_event_type |-> None,
     weekly_event_active |-> FALSE,
     weekly_event_end_time |-> 0,
     weekly_event_type |-> None,
     gems |-> 100,
     visible_caravans |-> << >>,
     explored_hexes |-> {},
     map_features |-> NoFeatures,
     last_water_update |-> time,
     sandstorm_active |-> FALSE,
     last_sandstorm_check |-> time,
     sandstorm_duration |-> 0]

\* RaidScreen.__init__
DefaultRaidScreen ==
    [target_caravan |-> NoCaravan, selected_raiders |-> 5,
     selected_heroes |-> << >>, resolved |-> FALSE]

NoCall == [op |-> None]

\* sahara_save.json: absent, written by save_game, or cut short
NoSaveFile == [state |-> "absent"]

\* accumulated, elapsed: what generate_resources was fed; constructed, raids,
\* events: Caravan objects built, raids executed, daily and weekly events
\* started; boss_damage: the amounts passed
\* to deal_damage_to_world_boss during the event, as far as the running
\* process or the save it started from has seen them; saved: the state
\* save_game last wrote from; held: per hero, the assign_heroes_to_raid calls
\* that handed it out and have not had it returned
NoHistory ==
    [accumulated |-> [k \in ResourceNames |-> 0], elapsed |-> 0, constructed |-> 0,
     raids |-> 0, boss_damage |-> 0, events |-> 0, saved |-> [made |-> FALSE],
     held |-> [i \in 1..NumHeroes |-> 0]]

NoCaravans == [i \in {} |-> 0]

----------------------------------------------------------------------------
(* game_data.py: generate_resources *)

RECURSIVE GenerateLoop(_, _, _, _)
\* the for loop over self.resource_rates.items() from key i on; a key the
\* timers or the stocks lack raises KeyError and leaves the earlier keys done
GenerateLoop(gd, keys, i, dt) ==
    IF i > Len(keys) THEN [raised |-> None, gd |-> gd]
    ELSE LET resource == keys[i] IN
         IF resource \notin DOMAIN gd.resource_rates
         THEN GenerateLoop(gd, keys, i + 1, dt)
         ELSE IF resource \notin DOMAIN gd.resource_timers
         THEN [raised |-> "KeyError", gd |-> gd]
         ELSE LET timer == gd.resource_timers[resource]
                           + gd.resource_rates[resource] * dt
              IN IF timer >= TimerThreshold
                 THEN IF resource \notin DOMAIN gd.resources
                      THEN [raised |-> "KeyError",
                            gd |-> [gd EXCEPT !.resource_timers[resource] =
                                                  timer - TimerThreshold]]
                      ELSE GenerateLoop(
                               [gd EXCEPT !.resource_timers[resource] =
                                              timer - TimerThreshold,
                                          !.resources[resource] = @ + 1],
                               keys, i + 1, dt)
                 ELSE GenerateLoop([gd EXCEPT !.resource_timers[resource] = timer],
                                   keys, i + 1, dt)

GenerateResources(gd, dt) == GenerateLoop(gd, ResourceOrder, 1, dt)

----------------------------------------------------------------------------
(* Operations on one caravan *)

\* Caravan.scout_caravan
ScoutCaravan(id) ==
    /\ id \in DOMAIN caravans
    /\ caravans' = [caravans EXCEPT ![id] = ScoutCaravanObj(@)]
    /\ call' = [op |-> "scout_caravan", caravan |-> id]
    /\ UNCHANGED <<game_data, raid_screen, save_file, monetization, now, history>>

\* Caravan.get_loot_distribution, called on caravan id
QueryLootDistribution(id) ==
    /\ id \in DOMAIN caravans
    /\ call' = [op |-> "get_loot_distribution", caravan |-> id,
                result |-> GetLootDistribution(caravans[id])]
    /\ UNCHANGED <<game_data, caravans, raid_screen, save_file, monetization,
                   now, history>>

----------------------------------------------------------------------------
(* The loot specification: get_loot_distribution on every caravan type and *)
(* every loot value 0..MaxLoot                                             *)

InitLoot ==
    /\ \E t \in CaravanTypeSet, v \in 0..MaxLoot :
          caravans = [i \in {1} |->
                         NewCaravan(0, 0, t, EscortsRange(t)[1], v, << >>, 0)]
    /\ game_data = [DefaultGameData(0) EXCEPT !.visible_caravans = <<1>>]
    /\ raid_screen = DefaultRaidScreen
    /\ save_file = NoSaveFile
    /\ monetization = [gems |-> 0]
    /\ now = 0
    /\ call = NoCall
    /\ history = NoHistory

NextLoot ==
    \/ ScoutCaravan(1)
    \/ QueryLootDistribution(1)

SpecLoot == InitLoot /\ [][NextLoot]_vars

\* C1: for every caravan type and every loot value V >= 0, the amounts
\* get_loot_distribution returns for a scouted caravan sum to exactly V.
C1_LootSumEqualsValue ==
    (call.op = "get_loot_distribution" /\ caravans[call.caravan].is_scouted)
        => /\ call.result.raised = None
           /\ SumOver(call.result.loot, ResourceNames)
                  = caravans[call.caravan].loot_value

----------------------------------------------------------------------------
(* The generation specification: generate_resources(dt) at constant rates  *)

\* seconds of game time a run of the generation specification may cover
MaxElapsed == 600

DtChoices == {0, 1, 60, 100, 250}

\* GameData.generate_resources(dt)
CallGenerateResources(dt) ==
    /\ history.elapsed + dt <= MaxElapsed
    /\ LET done == GenerateResources(game_data, dt) IN
          /\ game_data' = done.gd
          /\ call' = [op |-> "generate_resources", dt |-> dt, raised |-> done.raised,
                      before |-> game_data]
    /\ history' = [history EXCEPT
                      !.elapsed = @ + dt,
                      !.accumulated = [k \in ResourceNames |->
                                          @[k] + game_data.resource_rates[k] * dt]]
    /\ UNCHANGED <<caravans, raid_screen, save_file, monetization, now>>

InitGenerate ==
    /\ game_data = DefaultGameData(0)
    /\ caravans = NoCaravans
    /\ raid_screen = DefaultRaidScreen
    /\ save_file = NoSaveFile
    /\ monetization = [gems |-> 0]
    /\ now = 0
    /\ call = NoCall
    /\ history = NoHistory

NextGenerate == \E dt \in DtChoices : CallGenerateResources(dt)

SpecGenerate == InitGenerate /\ [][NextGenerate]_vars

\* C2: at constant rates, after every generate_resources call the stock
\* gained so far is floor(total accumulated / 100), i.e. the accumulator is
\* below 100.
C2_StockGainIsFloorOfAccumulated ==
    \A k \in ResourceNames :
        /\ game_data.resources[k] - DefaultResources[k]
               = history.accumulated[k] \div TimerThreshold
        /\ game_data.resource_timers[k] < TimerThreshold

----------------------------------------------------------------------------
(* game_data.py: heroes; the object heap *)

RECURSIVE AssignLoop(_, _, _, _)
\* assign_heroes_to_raid: the for loop over hero_indices from entry i on;
\* indices here are the code's index + 1
AssignLoop(heroes, hero_indices, i, assigned) ==
    IF i > Len(hero_indices) THEN [heroes |-> heroes, assigned |-> assigned]
    ELSE LET idx == hero_indices[i] IN
         IF idx >= 1 /\ idx <= Len(heroes) /\ heroes[idx].available
         THEN AssignLoop([heroes EXCEPT ![idx].available = FALSE], hero_indices,
                         i + 1, Append(assigned, idx))
         ELSE AssignLoop(heroes, hero_indices, i + 1, assigned)

\* an assignment that hands out every hero asked for, available or not
AssignRegardless(heroes, hero_indices) ==
    LET valid == SelectSeq(hero_indices,
                           LAMBDA idx : idx >= 1 /\ idx <= Len(heroes))
    IN [heroes |-> [i \in DOMAIN heroes |->
                       IF \E j \in DOMAIN valid : valid[j] = i
                       THEN [heroes[i] EXCEPT !.available = FALSE]
                       ELSE heroes[i]],
        assigned |-> valid]

AssignHeroesToRaid(heroes, hero_indices) == AssignLoop(heroes, hero_indices, 1, << >>)

\* return_heroes_from_raid(assigned)
ReturnHeroesFromRaid(heroes, assigned) ==
    [i \in DOMAIN heroes |->
        IF \E j \in DOMAIN assigned : assigned[j] = i
        THEN [heroes[i] EXCEPT !.available = TRUE]
        ELSE heroes[i]]

GetHeroBonusOfAll(heroes, bonus_type) ==
    SumOver([i \in DOMAIN heroes |-> HeroBonus(i, bonus_type)], DOMAIN heroes)

\* get_hero_bonus(bonus_type), in percent: available heroes only
GetHeroBonus(heroes, bonus_type) ==
    SumOver([i \in DOMAIN heroes |->
                IF heroes[i].available THEN HeroBonus(i, bonus_type) ELSE 0],
            DOMAIN heroes)

SeqToSet(seq) == {seq[i] : i \in DOMAIN seq}

RECURSIVE RemoveFirst(_, _)
\* list.remove(x) on a list that holds x
RemoveFirst(seq, x) ==
    IF seq = << >> THEN << >>
    ELSE IF Head(seq) = x THEN Tail(seq)
    ELSE <<Head(seq)>> \o RemoveFirst(Tail(seq), x)

\* a removal that drops the oldest entry instead of the one asked for
RemoveOldest(visible, id) == IF visible = << >> THEN visible ELSE Tail(visible)

\* if x in list: list.remove(x)
RemoveCaravan(visible, id) ==
    IF id \in SeqToSet(visible) THEN RemoveFirst(visible, id) ELSE visible

\* the Caravan objects something still refers to
Referenced(gd, rs) ==
    (SeqToSet(gd.visible_caravans) \cup {gd.world_boss_caravan, rs.target_caravan})
        \ {NoCaravan}

\* the heap without the objects nothing refers to any more
Collect(heap, gd, rs) == [i \in (DOMAIN heap) \cap Referenced(gd, rs) |-> heap[i]]

\* the id of the next object constructed
FreshId(heap) == IF DOMAIN heap = {} THEN 1
                 ELSE (CHOOSE m \in DOMAIN heap : \A i \in DOMAIN heap : i <= m) + 1

----------------------------------------------------------------------------
(* map_screen.py: _complete_scouting, _start_raid *)

CaravansAt(q, r) ==
    {i \in DOMAIN game_data.visible_caravans :
        /\ caravans[game_data.visible_caravans[i]].q = q
        /\ caravans[game_data.visible_caravans[i]].r = r}

\* _complete_scouting(spy) at hex (q, r): found is the 40% roll, t, escorts,
\* loot_value and path the draws of the Caravan constructor
CompleteScouting(q, r, found, t, escorts, loot_value, path) ==
    /\ IF CaravansAt(q, r) # {}
       THEN LET i == CHOOSE j \in CaravansAt(q, r) : \A k \in CaravansAt(q, r) : j <= k
                id == game_data.visible_caravans[i]
            IN /\ caravans' = [caravans EXCEPT ![id] = ScoutCaravanObj(@)]
               /\ game_data' = [game_data EXCEPT !.explored_hexes = @ \cup {<<q, r>>}]
               /\ history' = history
       ELSE IF found
       THEN /\ history.constructed < MaxCaravans
            /\ LET id == FreshId(caravans) IN
                  /\ caravans' = (id :> NewCaravan(q, r, t, escorts, loot_value,
                                                   path, now)) @@ caravans
                  /\ game_data' = [game_data EXCEPT
                                      !.visible_caravans = Append(@, id),
                                      !.explored_hexes = @ \cup {<<q, r>>}]
            /\ history' = [history EXCEPT !.constructed = @ + 1]
       ELSE /\ game_data' = [game_data EXCEPT !.explored_hexes = @ \cup {<<q, r>>}]
            /\ UNCHANGED <<caravans, history>>
    /\ call' = [op |-> "complete_scouting"]
    /\ UNCHANGED <<raid_screen, save_file, monetization, now>>

\* MapScreen._start_raid(caravan) -> RaidScreen.prepare_raid(caravan)
PrepareRaid(id) ==
    /\ id \in SeqToSet(game_data.visible_caravans)
    /\ raid_screen' = [raid_screen EXCEPT !.target_caravan = id,
                                          !.selected_heroes = << >>,
                                          !.resolved = FALSE]
    /\ caravans' = Collect(caravans, game_data, raid_screen')
    /\ call' = [op |-> "prepare_raid"]
    /\ UNCHANGED <<game_data, save_file, monetization, now, history>>

----------------------------------------------------------------------------
(* raid_screen.py *)

\* The raid screen is on display from prepare_raid to return_to_map.
RaidScreenShown == raid_screen.target_caravan # NoCaravan

\* on_raider_slider_change(value)
OnRaiderSliderChange(value) ==
    /\ RaidScreenShown
    /\ raid_screen' = [raid_screen EXCEPT !.selected_raiders = value]
    /\ call' = [op |-> "on_raider_slider_change"]
    /\ UNCHANGED <<game_data, caravans, save_file, monetization, now, history>>

\* toggle_hero_selection(hero_index)
ToggleHeroSelection(idx) ==
    /\ RaidScreenShown
    /\ idx \in DOMAIN game_data.heroes
    /\ raid_screen' =
          IF idx \in SeqToSet(raid_screen.selected_heroes)
          THEN [raid_screen EXCEPT !.selected_heroes = RemoveFirst(@, idx)]
          ELSE IF Len(raid_screen.selected_heroes) < 3 /\ game_data.heroes[idx].available
          THEN [raid_screen EXCEPT !.selected_heroes = Append(@, idx)]
          ELSE raid_screen
    /\ call' = [op |-> "toggle_hero_selection"]
    /\ UNCHANGED <<game_data, caravans, save_file, monetization, now, history>>

\* combat strengths are counted in 1/StrengthScale
StrengthScale == 200

\* selected_raiders * 3 * (1 + raid_damage) * (1 + 0.1) * (1 + raid_success),
\* the bonuses in percent; exact for the bonuses the heroes give
EffectiveRaiderStrength(selected_raiders, raid_damage_bonus, raid_success_bonus) ==
    selected_raiders * 3
        * (((100 + raid_damage_bonus) * 110 * (100 + raid_success_bonus)
              * StrengthScale) \div 1000000)

\* the values random.random() * total_strength is tried at: both ends of its
\* range and both sides of raider_strength
WinRolls(total_strength, raider_strength) ==
    LET range == IF total_strength > 0 THEN 0..(total_strength - 1)
                 ELSE IF total_strength < 0 THEN (total_strength + 1)..0
                 ELSE {0}
    IN range \cap {0, raider_strength, raider_strength + 1,
                   total_strength - 1, total_strength + 1}

\* win_roll <= raider_strength
RaidSucceeds(win_roll, raider_strength) == win_roll <= raider_strength

RECURSIVE AddLootLoop(_, _, _, _)
\* for resource, amount in loot_gained.items(): resources[resource] += amount
AddLootLoop(resources, types, i, loot) ==
    IF i > Len(types) THEN [raised |-> None, resources |-> resources]
    ELSE LET resource == types[i][1] IN
         IF loot[resource] = 0 THEN AddLootLoop(resources, types, i + 1, loot)
         ELSE IF resource \notin DOMAIN resources
         THEN [raised |-> "KeyError", resources |-> resources]
         ELSE AddLootLoop([resources EXCEPT ![resource] = @ + loot[resource]],
                          types, i + 1, loot)

\* randint(a, b): the values it is tried at, the two ends of its range
\* (none when the range is empty: ValueError)
RandInt(a, b) == IF a > b THEN {} ELSE {a, b}

\* execute_raid up to and including the removal of the target, as a
\* function of the random draws: win_roll, lost (raiders_lost),
\* capture (random.random() < slave_chance) and slaves_captured.
\* The result carries the exception, if one ended the handler early.
ResolveRaid(gd, target, squad, hero_indices, win_roll, lost, capture, slaves_captured) ==
    LET assignment == AssignHeroesToRaid(gd.heroes, hero_indices)
        raid_success_bonus == GetHeroBonus(assignment.heroes, "raid_success")
        raid_damage_bonus == GetHeroBonus(assignment.heroes, "raid_damage")
        raider_strength == EffectiveRaiderStrength(squad, raid_damage_bonus,
                                                   raid_success_bonus)
        success == RaidSucceeds(win_roll, raider_strength)
        gd1 == [gd EXCEPT !.heroes = assignment.heroes]
        distribution == GetLootDistribution(target)
        added == AddLootLoop(gd.resources, LootTypes(target.caravan_type), 1,
                             distribution.loot)
        failed(exception, gdx) ==
            [raised |-> exception, success |-> success, gd |-> gdx,
             loot_gained |-> NoLoot, raiders_lost |-> 0, slaves_captured |-> 0]
    IN IF success
       THEN IF distribution.raised # None THEN failed(distribution.raised, gd1)
            ELSE IF added.raised # None
            THEN failed(added.raised, [gd1 EXCEPT !.resources = added.resources])
            ELSE IF capture /\ "slaves" \notin DOMAIN added.resources
            THEN failed("KeyError", [gd1 EXCEPT !.resources = added.resources])
            ELSE [raised |-> None, success |-> TRUE,
                  gd |-> [gd EXCEPT
                             !.resources =
                                 IF capture
                                 THEN [added.resources EXCEPT !["slaves"] = @ + slaves_captured]
                                 ELSE added.resources,
                             !.raiders_available = Max(0, @ - lost),
                             !.heroes = ReturnHeroesFromRaid(assignment.heroes,
                                                             assignment.assigned)],
                  loot_gained |-> distribution.loot,
                  raiders_lost |-> lost,
                  slaves_captured |-> IF capture THEN slaves_captured ELSE 0]
       ELSE IF RandInt(1, squad) = {} THEN failed("ValueError", gd1)
            ELSE [raised |-> None, success |-> FALSE,
                  gd |-> [gd EXCEPT
                             !.raiders_available = Max(0, @ - lost),
                             !.heroes = ReturnHeroesFromRaid(assignment.heroes,
                                                             assignment.assigned)],
                  loot_gained |-> NoLoot,
                  raiders_lost |-> lost,
                  slaves_captured |-> 0]

\* raiders_lost drawn from 0..squad whatever the outcome
LostChoicesUpToSquad(success, squad) == RandInt(0, Max(1, squad))

\* the draws raiders_lost can take for the outcome
LostChoices(success, squad) ==
    IF success THEN RandInt(0, Max(1, squad \div 3))
    ELSE IF RandInt(1, squad) = {} THEN {0} ELSE RandInt(1, squad)

\* RaidScreen.execute_raid; the draws are those of random.random() and
\* random.randint on the path the handler takes
ExecuteRaid ==
    /\ RaidScreenShown
    /\ history.raids < MaxRaids
    /\ LET target == caravans[raid_screen.target_caravan]
           squad == raid_screen.selected_raiders
           assignment == AssignHeroesToRaid(game_data.heroes, raid_screen.selected_heroes)
           raider_strength ==
               EffectiveRaiderStrength(squad,
                   GetHeroBonus(assignment.heroes, "raid_damage"),
                   GetHeroBonus(assignment.heroes, "raid_success"))
           total_strength == raider_strength + GetCombatStrength(target) * StrengthScale
       IN \E win_roll \in WinRolls(total_strength, raider_strength) :
          \E lost \in LostChoices(RaidSucceeds(win_roll, raider_strength), squad) :
          \E capture \in IF RaidSucceeds(win_roll, raider_strength)
                         THEN BOOLEAN ELSE {FALSE} :
          \E slaves_captured \in IF capture THEN RandInt(1, 3) ELSE {1} :
             LET done == ResolveRaid(game_data, target, squad,
                                     raid_screen.selected_heroes,
                                     win_roll, lost, capture, slaves_captured)
             IN /\ game_data' =
                      IF done.raised # None THEN done.gd
                      ELSE [done.gd EXCEPT !.visible_caravans =
                                               RemoveCaravan(@, raid_screen.target_caravan)]
                /\ raid_screen' = IF done.raised # None THEN raid_screen
                                  ELSE [raid_screen EXCEPT !.resolved = TRUE]
                /\ call' = [op |-> "execute_raid",
                            caravan |-> raid_screen.target_caravan,
                            squad |-> squad,
                            raiders_before |-> game_data.raiders_available,
                            raider_strength |-> raider_strength,
                            raised |-> done.raised, success |-> done.success,
                            loot_gained |-> done.loot_gained,
                            raiders_lost |-> done.raiders_lost,
                            slaves_captured |-> done.slaves_captured]
    /\ history' = [history EXCEPT !.raids = @ + 1]
    /\ UNCHANGED <<caravans, save_file, monetization, now>>

\* RaidScreen.return_to_map
ReturnToMap ==
    /\ RaidScreenShown
    /\ raid_screen' = [raid_screen EXCEPT !.target_caravan = NoCaravan,
                                          !.resolved = FALSE]
    /\ caravans' = Collect(caravans, game_data, raid_screen')
    /\ call' = [op |-> "return_to_map"]
    /\ UNCHANGED <<game_data, save_file, monetization, now, history>>

----------------------------------------------------------------------------
(* The raid specification: caravans are found by scouting, raids prepared, *)
(* changed, resolved and acknowledged                                      *)

\* a path _generate_movement_path can draw: n waypoints, each `distance`
\* hexes further in direction (dq, dr)
StraightPath(q, r, dq, dr, distance, n) ==
    [i \in 1..n |-> <<q + dq * distance * i, r + dr * distance * i>>]

\* random.randint(5, 10) waypoints
MinWaypoints == 5

RaidHexes == {<<0, 0>>, <<1, 0>>}

RaidCaravanTypes == {"salt"}

SquadChoices == {0 - 1, 0, 5}

RaidHeroChoices == {1}

RaidInit ==
    /\ game_data = DefaultGameData(0)
    /\ caravans = NoCaravans
    /\ raid_screen = DefaultRaidScreen
    /\ save_file = NoSaveFile
    /\ monetization = [gems |-> 0]
    /\ now = 0
    /\ call = NoCall
    /\ history = NoHistory

RaidNext ==
    \/ \E h \in RaidHexes, found \in BOOLEAN, t \in RaidCaravanTypes :
          CompleteScouting(h[1], h[2], found, t, EscortsRange(t)[1], LootRange(t)[1],
                           StraightPath(h[1], h[2], 1, 0, 1, MinWaypoints))
    \/ \E id \in DOMAIN caravans : PrepareRaid(id)
    \/ \E value \in SquadChoices : OnRaiderSliderChange(value)
    \/ \E idx \in RaidHeroChoices : ToggleHeroSelection(idx)
    \/ ExecuteRaid
    \/ ReturnToMap

SpecRaid == RaidInit /\ [][RaidNext]_vars

\* C3: a raid resolved with a squad of 0 fails whatever the draw, and gains
\* neither loot nor slaves.
C3_EmptySquadAlwaysFails ==
    (call.op = "execute_raid" /\ call.squad = 0)
        => /\ ~call.success
           /\ call.loot_gained = NoLoot
           /\ call.slaves_captured = 0

\* C4: once execute_raid has resolved the prepared target, a further
\* execute_raid before return_to_map or a new prepare_raid changes neither a
\* resource stock nor raiders_available.
C4_ResolutionAppliedOnce ==
    [][(raid_screen.resolved /\ call'.op = "execute_raid")
          => /\ game_data'.resources = game_data.resources
             /\ game_data'.raiders_available = game_data.raiders_available]_vars

----------------------------------------------------------------------------
(* game_data.py: Building, can_afford, spend_resources *)

BuildingTypeSet == {"tent", "well", "stable", "watchtower", "slave_pen"}

\* BUILDING_TYPES[...]['max_level'], the same for every type
MaxLevel == 3

\* the camp grid is GridSize x GridSize
GridSize == 8

\* BUILDING_TYPES[type]['base_cost']
BaseCost(building_type) ==
    CASE building_type = "tent"       -> [k \in {"gold"} |-> 20]
      [] building_type = "well"       -> [k \in {"gold"} |-> 30]
      [] building_type = "stable"     -> [k \in {"gold", "salt"} |->
                                             IF k = "gold" THEN 50 ELSE 10]
      [] building_type = "watchtower" -> [k \in {"gold", "spices"} |->
                                             IF k = "gold" THEN 40 ELSE 5]
      [] building_type = "slave_pen"  -> [k \in {"gold"} |-> 35]

\* BUILDING_TYPES[type]['effects'][effect] for one level; rates in rate
\* units, defense and recruitment in percent
BaseEffect(building_type, effect_type) ==
    CASE building_type = "tent" /\ effect_type = "housing"           -> 5
      [] building_type = "well" /\ effect_type = "water_rate"        -> RateScale \div 2
      [] building_type = "stable" /\ effect_type = "auto_gold"       -> RateScale
      [] building_type = "stable" /\ effect_type = "auto_salt"       -> RateScale \div 2
      [] building_type = "watchtower" /\ effect_type = "defense"     -> 20
      [] building_type = "slave_pen" /\ effect_type = "recruitment"  -> 30
      [] OTHER -> 0

RECURSIVE Pow(_, _)
Pow(b, e) == IF e <= 0 THEN 1 ELSE b * Pow(b, e - 1)

CalculateUpgradeCostFlat(building_type, level) == BaseCost(building_type)

\* calculate_upgrade_cost: int(amount * 1.5 ** (level - 1)) per resource
\* (exact in doubles for the levels 1..MaxLevel)
CalculateUpgradeCost(building_type, level) ==
    LET base_cost == BaseCost(building_type)
    IN [k \in DOMAIN base_cost |->
           (base_cost[k] * Pow(3, level - 1)) \div Pow(2, level - 1)]

\* Building(building_type, level)
NewBuilding(building_type, level) ==
    [building_type |-> building_type, level |-> level,
     upgrade_cost |-> CalculateUpgradeCost(building_type, level)]

\* get_total_building_effect(effect_type)
GetTotalBuildingEffect(camp_buildings, effect_type) ==
    SumOver([pos \in DOMAIN camp_buildings |->
                BaseEffect(camp_buildings[pos].building_type, effect_type)
                    * camp_buildings[pos].level],
            DOMAIN camp_buildings)

\* update_derived_stats
UpdateDerivedStats(gd) ==
    [gd EXCEPT
        !.max_raiders = 50 + GetTotalBuildingEffect(gd.camp_buildings, "housing"),
        !.resource_rates =
            ("water" :> (RateScale + GetTotalBuildingEffect(gd.camp_buildings,
                                                            "water_rate")))
                @@ gd.resource_rates]

\* resources.get(resource, 0)
Stock(resources, resource) ==
    IF resource \in DOMAIN resources THEN resources[resource] ELSE 0

\* can_afford(cost)
CanAfford(resources, cost) ==
    \A resource \in DOMAIN cost : Stock(resources, resource) >= cost[resource]

SpendResourcesUnchecked(resources, cost) ==
    [k \in DOMAIN resources |->
        IF k \in DOMAIN cost THEN resources[k] - cost[k] ELSE resources[k]]

\* spend_resources(cost): the stocks afterwards (unchanged when unaffordable)
SpendResources(resources, cost) ==
    IF ~CanAfford(resources, cost) THEN resources
    ELSE [k \in DOMAIN resources |->
             IF k \in DOMAIN cost THEN resources[k] - cost[k] ELSE resources[k]]

\* a bounds test that admits the row and column just beyond the grid
InBoundsInclusive(x, y) == 0 <= x /\ x <= GridSize /\ 0 <= y /\ y <= GridSize

\* 0 <= x < 8 and 0 <= y < 8
InBounds(x, y) == 0 <= x /\ x < GridSize /\ 0 <= y /\ y < GridSize

\* place_building(x, y, building_type): the return value and the state after
PlaceBuilding(gd, x, y, building_type) ==
    IF <<x, y>> \in DOMAIN gd.camp_buildings THEN [ret |-> FALSE, gd |-> gd]
    ELSE IF ~InBounds(x, y) THEN [ret |-> FALSE, gd |-> gd]
    ELSE [ret |-> TRUE,
          gd |-> UpdateDerivedStats(
                     [gd EXCEPT !.camp_buildings =
                                    (<<x, y>> :> NewBuilding(building_type, 1)) @@ @])]

UpgradeBuildingPastMax(gd, x, y) ==
    IF <<x, y>> \notin DOMAIN gd.camp_buildings THEN [ret |-> FALSE, gd |-> gd]
    ELSE LET building == gd.camp_buildings[<<x, y>>] IN
         IF ~CanAfford(gd.resources, building.upgrade_cost)
         THEN [ret |-> FALSE, gd |-> gd]
         ELSE [ret |-> TRUE,
               gd |-> UpdateDerivedStats(
                          [gd EXCEPT
                              !.resources = SpendResources(@, building.upgrade_cost),
                              !.camp_buildings[<<x, y>>] =
                                  NewBuilding(building.building_type,
                                              building.level + 1)])]

\* upgrade_building(x, y): the return value and the state after
UpgradeBuilding(gd, x, y) ==
    IF <<x, y>> \notin DOMAIN gd.camp_buildings THEN [ret |-> FALSE, gd |-> gd]
    ELSE LET building == gd.camp_buildings[<<x, y>>] IN
         IF building.level >= MaxLevel THEN [ret |-> FALSE, gd |-> gd]
         ELSE IF ~CanAfford(gd.resources, building.upgrade_cost)
         THEN [ret |-> FALSE, gd |-> gd]
         ELSE [ret |-> TRUE,
               gd |-> UpdateDerivedStats(
                          [gd EXCEPT
                              !.resources = SpendResources(@, building.upgrade_cost),
                              !.camp_buildings[<<x, y>>] =
                                  NewBuilding(building.building_type,
                                              building.level + 1)])]

----------------------------------------------------------------------------
(* Camp operations *)

\* GameData.place_building(x, y, building_type)
CallPlaceBuilding(x, y, building_type) ==
    /\ LET done == PlaceBuilding(game_data, x, y, building_type) IN
          /\ game_data' = done.gd
          /\ call' = [op |-> "place_building", x |-> x, y |-> y,
                      building_type |-> building_type, ret |-> done.ret,
                      before |-> game_data]
    /\ UNCHANGED <<caravans, raid_screen, save_file, monetization, now, history>>

\* GameData.upgrade_building(x, y), called through the API
CallUpgradeBuilding(x, y) ==
    /\ LET done == UpgradeBuilding(game_data, x, y) IN
          /\ game_data' = done.gd
          /\ call' = [op |-> "upgrade_building", x |-> x, y |-> y,
                      ret |-> done.ret, before |-> game_data]
    /\ UNCHANGED <<caravans, raid_screen, save_file, monetization, now, history>>

\* CampGridWidget.on_grid_click(x, y): upgrade the building there, or
\* show_building_menu(x, y): place a tent when {'gold': 20} is affordable and
\* charge it after a successful placement
OnGridClick(x, y) ==
    /\ InBounds(x, y)
    /\ LET tent_cost == [k \in {"gold"} |-> 20] IN
       game_data' =
          IF <<x, y>> \in DOMAIN game_data.camp_buildings
          THEN UpgradeBuilding(game_data, x, y).gd
          ELSE IF CanAfford(game_data.resources, tent_cost)
          THEN LET done == PlaceBuilding(game_data, x, y, "tent") IN
               IF done.ret
               THEN [done.gd EXCEPT !.resources = SpendResources(@, tent_cost)]
               ELSE done.gd
          ELSE game_data
    /\ call' = [op |-> "on_grid_click"]
    /\ UNCHANGED <<caravans, raid_screen, save_file, monetization, now, history>>

----------------------------------------------------------------------------
(* The camp specification: placements through the API and through the grid *)

\* coordinates tried: columns on each side of both edges of the grid, rows
\* below, on and beyond the first edge and beyond the last
CampXs == {0 - 1, 0, GridSize - 1, GridSize}

CampYs == {0 - 1, 0, GridSize}

CampTypes == {"tent", "well"}

\* gold stocks the camp is entered with: the initial one and one raids give
CampGold == {25, 225}

CampInit ==
    /\ \E gold \in CampGold :
          game_data = [DefaultGameData(0) EXCEPT !.resources["gold"] = gold]
    /\ caravans = NoCaravans
    /\ raid_screen = DefaultRaidScreen
    /\ save_file = NoSaveFile
    /\ monetization = [gems |-> 0]
    /\ now = 0
    /\ call = NoCall
    /\ history = NoHistory

CampNext ==
    \/ \E x \in CampXs, y \in CampYs, t \in CampTypes :
          CallPlaceBuilding(x, y, t)
    \/ \E x \in CampXs, y \in CampYs : OnGridClick(x, y)

SpecCamp == CampInit /\ [][CampNext]_vars

\* C5: place_building(x, y, type) returns true and creates a level-1
\* building of that type at (x, y) iff (x, y) is inside the 8x8 grid and
\* empty; otherwise it returns false and leaves the grid as it was; in
\* neither case does it change a resource stock.
C5_PlaceBuildingValidatesPosition ==
    call.op = "place_building" =>
        LET pos == <<call.x, call.y>>
            old == call.before.camp_buildings
            new == game_data.camp_buildings
            valid == /\ 0 <= call.x /\ call.x <= 7
                     /\ 0 <= call.y /\ call.y <= 7
                     /\ pos \notin DOMAIN old
        IN /\ call.ret = valid
           /\ valid => /\ DOMAIN new = DOMAIN old \cup {pos}
                       /\ new[pos].level = 1
                       /\ new[pos].building_type = call.building_type
                       /\ \A p \in DOMAIN old : new[p] = old[p]
           /\ ~valid => new = old
           /\ game_data.resources = call.before.resources

\* a well placed on a free cell of a grid that already holds a building
C5_Witness ==
    /\ call.op = "place_building"
    /\ call.ret
    /\ call.x = 7 /\ call.y = 0 /\ call.building_type = "well"
    /\ <<0, 0>> \in DOMAIN call.before.camp_buildings
    /\ game_data.camp_buildings[<<7, 0>>].level = 1

----------------------------------------------------------------------------
(* game_data.py: TechTree; tech_screen.py: research_tech *)

\* TECH_BRANCHES[branch]['tiers'][tier]['cost']
TechCost(branch, tier) ==
    CASE branch = "weapons" /\ tier = 1 -> [k \in {"gold"} |-> 100]
      [] branch = "weapons" /\ tier = 2 ->
             [k \in {"gold", "spices"} |-> IF k = "gold" THEN 250 ELSE 50]
      [] branch = "weapons" /\ tier = 3 ->
             [k \in {"gold", "spices"} |-> IF k = "gold" THEN 500 ELSE 150]
      [] branch = "camels" /\ tier = 1 -> [k \in {"gold"} |-> 80]
      [] branch = "camels" /\ tier = 2 ->
             [k \in {"gold", "salt"} |-> IF k = "gold" THEN 200 ELSE 100]
      [] branch = "camels" /\ tier = 3 ->
             [k \in {"gold", "spices"} |-> IF k = "gold" THEN 400 ELSE 100]
      [] branch = "fortifications" /\ tier = 1 -> [k \in {"gold"} |-> 120]
      [] branch = "fortifications" /\ tier = 2 ->
             [k \in {"gold", "salt"} |-> IF k = "gold" THEN 300 ELSE 50]
      [] branch = "fortifications" /\ tier = 3 ->
             [k \in {"gold", "spices"} |-> IF k = "gold" THEN 600 ELSE 200]

\* unlocked_techs.get(branch, 0)
UnlockedTier(unlocked_techs, branch) ==
    IF branch \in DOMAIN unlocked_techs THEN unlocked_techs[branch] ELSE 0

\* a prerequisite test that lets a research skip one tier
CanResearchSkipping(unlocked_techs, branch, tier) ==
    UnlockedTier(unlocked_techs, branch) >= tier - 2

\* TechTree.can_research(branch, tier)
CanResearch(unlocked_techs, branch, tier) ==
    UnlockedTier(unlocked_techs, branch) >= tier - 1

\* TechScreen.research_tech(branch, tier)
ResearchTech(branch, tier) ==
    /\ LET allowed == CanResearch(game_data.unlocked_techs, branch, tier)
           cost == TechCost(branch, tier)
           done == allowed /\ CanAfford(game_data.resources, cost)
       IN /\ game_data' =
                IF done
                THEN [game_data EXCEPT
                         !.resources = SpendResources(@, cost),
                         !.unlocked_techs = (branch :> tier) @@ @]
                ELSE game_data
          /\ call' = [op |-> "research_tech", branch |-> branch, tier |-> tier,
                      researched |-> done,
                      before |-> UnlockedTier(game_data.unlocked_techs, branch)]
    /\ UNCHANGED <<caravans, raid_screen, save_file, monetization, now, history>>

\* TechTree.can_research(branch, tier), asked without researching
QueryCanResearch(branch, tier) ==
    /\ call' = [op |-> "can_research", branch |-> branch, tier |-> tier,
                ret |-> CanResearch(game_data.unlocked_techs, branch, tier)]
    /\ UNCHANGED <<game_data, caravans, raid_screen, save_file, monetization,
                   now, history>>

----------------------------------------------------------------------------
(* The tech specification *)

\* the tiers of a branch
TechTiers == 1..3

\* the branches researched in
ResearchedBranches == {"weapons", "camels"}

\* stocks the tech screen is entered with: the initial ones and ones that
\* pay for all three tiers of a branch
TechStocks == {DefaultResources,
               [DefaultResources EXCEPT !["gold"] = 900, !["spices"] = 200,
                                        !["salt"] = 150]}

TechInit ==
    /\ \E stocks \in TechStocks :
          game_data = [DefaultGameData(0) EXCEPT !.resources = stocks]
    /\ caravans = NoCaravans
    /\ raid_screen = DefaultRaidScreen
    /\ save_file = NoSaveFile
    /\ monetization = [gems |-> 0]
    /\ now = 0
    /\ call = NoCall
    /\ history = NoHistory

TechNext ==
    \/ \E branch \in ResearchedBranches, tier \in TechTiers :
          ResearchTech(branch, tier)
    \/ \E branch \in ResearchedBranches, tier \in TechTiers :
          QueryCanResearch(branch, tier)

SpecTech == TechInit /\ [][TechNext]_vars

\* C6: can_research(branch, t) is true exactly when the branch's unlocked
\* tier is >= t - 1, a research happens only when can_research allows it, and
\* no research raises a branch's unlocked tier by more than one step.
C6_ResearchNeedsPreviousTier ==
    /\ call.op = "can_research" =>
          (call.ret <=> UnlockedTier(game_data.unlocked_techs, call.branch)
                            >= call.tier - 1)
    /\ call.op = "research_tech" =>
          LET after == UnlockedTier(game_data.unlocked_techs, call.branch) IN
          /\ call.researched => call.before >= call.tier - 1
          /\ after <= call.before + 1
          /\ ~call.researched => after = call.before

\* tier 2 of a branch researched from unlocked tier 1 while another branch,
\* still at tier 0, has none
C6_Witness ==
    /\ call.op = "research_tech"
    /\ call.branch = "weapons" /\ call.tier = 2 /\ call.before = 1
    /\ call.researched
    /\ UnlockedTier(game_data.unlocked_techs, "weapons") = 2
    /\ UnlockedTier(game_data.unlocked_techs, "camels") = 0

----------------------------------------------------------------------------
(* game_data.py: the world-boss event; clan_screen.py: on_enter *)

\* 7 * 24 * 60 * 60 seconds
WeekSeconds == 7 * 24 * 60 * 60

\* GameData.start_world_boss_event; escorts, loot_value and path are the
\* draws of the Caravan constructor
StartWorldBossEvent(escorts, loot_value, path) ==
    /\ history.constructed < MaxCaravans
    /\ LET id == FreshId(caravans)
           gd == [game_data EXCEPT
                     !.world_boss_caravan = id,
                     !.visible_caravans = Append(@, id),
                     !.world_boss_active = TRUE,
                     !.world_boss_end_time = now + WeekSeconds,
                     !.clan_damage_contributed = 0]
       IN /\ game_data' = gd
          /\ caravans' = Collect((id :> NewCaravan(0, 0, "sandworm", escorts,
                                                   loot_value, path, now))
                                     @@ caravans, gd, raid_screen)
    /\ history' = [history EXCEPT !.constructed = @ + 1, !.boss_damage = 0]
    /\ call' = [op |-> "start_world_boss_event"]
    /\ UNCHANGED <<raid_screen, save_file, monetization, now>>

\* self.clan_id or self.player_id
ContributorKey(gd) == IF gd.clan_id # None THEN gd.clan_id ELSE gd.player_id

\* int(player_damage / total_damage * 1000); the double quotient times 1000
\* truncates to the exact floor for all 0 <= player_damage <= total_damage
\* < 3000, hence for every ratio of whole hundreds up to 300000
GemsRewarded(player_damage, total_damage) ==
    (player_damage * 1000) \div total_damage

\* GameData.end_world_boss_event on state gd and heap, gems the balance of
\* monetization_manager: the state and the balance afterwards
EndWorldBossEvent(gd, heap, gems) ==
    IF ~gd.world_boss_active THEN [gd |-> gd, gems |-> gems]
    ELSE LET boss == gd.world_boss_caravan
             clan_damage == IF boss # NoCaravan THEN heap[boss].clan_damage
                            ELSE NoDamage
             total_damage == SumOver(clan_damage, DOMAIN clan_damage)
             key == ContributorKey(gd)
             player_damage == IF key \in DOMAIN clan_damage THEN clan_damage[key]
                              ELSE 0
             gems_rewarded == IF total_damage > 0
                              THEN GemsRewarded(player_damage, total_damage)
                              ELSE 0
         IN [gd |-> [gd EXCEPT
                        !.world_boss_active = FALSE,
                        !.visible_caravans = IF boss # NoCaravan
                                             THEN RemoveCaravan(@, boss) ELSE @,
                        !.world_boss_caravan = NoCaravan],
             gems |-> IF gems_rewarded > 0 THEN gems + gems_rewarded ELSE gems]

\* cumulative damage a run passes to deal_damage_to_world_boss in one event
MaxBossDamage == 12000

\* GameData.deal_damage_to_world_boss(damage)
DealDamageToWorldBoss(damage) ==
    /\ history.boss_damage + damage <= MaxBossDamage
    /\ LET boss == game_data.world_boss_caravan
           key == ContributorKey(game_data)
       IN IF ~game_data.world_boss_active \/ boss = NoCaravan
          THEN /\ UNCHANGED <<game_data, caravans, monetization>>
               /\ call' = [op |-> "deal_damage_to_world_boss",
                           active |-> game_data.world_boss_active,
                           boss |-> boss, contributed |-> 0, total |-> 0,
                           reward |-> 0]
          ELSE LET old == caravans[boss].clan_damage
                   hit == [caravans EXCEPT
                              ![boss].current_health = @ - damage,
                              ![boss].clan_damage =
                                  (key :> ((IF key \in DOMAIN old THEN old[key]
                                            ELSE 0) + damage)) @@ old]
                   gd == [game_data EXCEPT !.clan_damage_contributed = @ + damage]
                   ended == IF hit[boss].current_health <= 0
                            THEN EndWorldBossEvent(gd, hit, monetization.gems)
                            ELSE [gd |-> gd, gems |-> monetization.gems]
               IN /\ game_data' = ended.gd
                  /\ caravans' = Collect(hit, ended.gd, raid_screen)
                  /\ monetization' = [gems |-> ended.gems]
                  /\ call' = [op |-> "deal_damage_to_world_boss",
                              active |-> TRUE, boss |-> boss,
                              contributed |-> hit[boss].clan_damage[key],
                              total |-> SumOver(hit[boss].clan_damage,
                                                DOMAIN hit[boss].clan_damage),
                              reward |-> ended.gems - monetization.gems]
    /\ history' = [history EXCEPT
                      !.boss_damage = IF game_data.world_boss_active
                                      THEN @ + damage ELSE @]
    /\ UNCHANGED <<raid_screen, save_file, now>>

\* ClanScreen.on_enter: a player without an id gets a uuid
EnterClanScreen ==
    /\ game_data' = [game_data EXCEPT
                        !.player_id = IF @ = None THEN "player-uuid" ELSE @]
    /\ call' = [op |-> "clan_screen_on_enter"]
    /\ UNCHANGED <<caravans, raid_screen, save_file, monetization, now, history>>

----------------------------------------------------------------------------
(* game_data.py: save_game, load_game *)

\* f"{x},{y}": the key a grid or hex position is saved under
PosKey(x, y) == <<x, ",", y>>

\* map(int, pos_str.split(','))
ParsePos(pos_str) == <<pos_str[1], pos_str[3]>>

\* the save_data dict save_game dumps; JSON keeps the items of tuples and
\* sets but holds them as lists
SaveData(gd, heap) ==
    [resources |-> gd.resources,
     resource_rates |-> gd.resource_rates,
     resource_timers |-> gd.resource_timers,
     raiders_available |-> gd.raiders_available,
     max_raiders |-> gd.max_raiders,
     player_id |-> gd.player_id,
     clan_id |-> gd.clan_id,
     world_boss_active |-> gd.world_boss_active,
     world_boss_end_time |-> gd.world_boss_end_time,
     clan_damage_contributed |-> gd.clan_damage_contributed,
     daily_event_active |-> gd.daily_event_active,
     daily_event_end_time |-> gd.daily_event_end_time,
     weekly_event_active |-> gd.weekly_event_active,
     weekly_event_end_time |-> gd.weekly_event_end_time,
     gems |-> gd.gems,
     heroes |-> [i \in DOMAIN gd.heroes |->
                    [level |-> gd.heroes[i].level,
                     available |-> gd.heroes[i].available]],
     camp_buildings |->
         [k \in {PosKey(p[1], p[2]) : p \in DOMAIN gd.camp_buildings} |->
             [type |-> gd.camp_buildings[ParsePos(k)].building_type,
              level |-> gd.camp_buildings[ParsePos(k)].level]],
     tech_unlocked |-> gd.unlocked_techs,
     map_features |->
         [k \in {PosKey(h[1], h[2]) : h \in DOMAIN gd.map_features} |->
             gd.map_features[ParsePos(k)]],
     visible_caravans |->
         [i \in DOMAIN gd.visible_caravans |->
             LET c == heap[gd.visible_caravans[i]] IN
             [q |-> c.q, r |-> c.r, type |-> c.caravan_type,
              escorts |-> c.escorts, loot_value |-> c.loot_value,
              movement_path |-> c.movement_path,
              last_move_time |-> c.last_move_time]],
     explored_hexes |-> gd.explored_hexes,
     last_water_update |-> gd.last_water_update,
     last_sandstorm_check |-> gd.last_sandstorm_check,
     sandstorm_active |-> gd.sandstorm_active,
     sandstorm_duration |-> gd.sandstorm_duration]

\* save_data.get(key, default)
Get(d, key, default) == IF key \in DOMAIN d THEN d[key] ELSE default

\* what load_game reads from the dict json.load gave: a top-level key the
\* record lacks reads as the default of its .get (for 'heroes', 'tech_unlocked',
\* 'camp_buildings' and 'map_features', as what the `in` test leaves in
\* place), and so do 'movement_path' and 'last_move_time' of a caravan entry.
\* The dicts under 'resources', 'resource_rates' and 'resource_timers' are
\* taken as they are.
WithDefaults(save_data, fresh, time) ==
    LET defaults ==
            [resources |-> fresh.resources,
             resource_rates |-> fresh.resource_rates,
             resource_timers |-> fresh.resource_timers,
             raiders_available |-> fresh.raiders_available,
             max_raiders |-> fresh.max_raiders,
             player_id |-> None,
             clan_id |-> None,
             world_boss_active |-> FALSE,
             world_boss_end_time |-> 0,
             clan_damage_contributed |-> 0,
             daily_event_active |-> FALSE,
             daily_event_end_time |-> 0,
             weekly_event_active |-> FALSE,
             weekly_event_end_time |-> 0,
             gems |-> fresh.gems,
             heroes |-> << >>,
             camp_buildings |-> << >>,
             tech_unlocked |-> fresh.unlocked_techs,
             map_features |-> << >>,
             visible_caravans |-> << >>,
             explored_hexes |-> {},
             last_water_update |-> time,
             last_sandstorm_check |-> time,
             sandstorm_active |-> FALSE,
             sandstorm_duration |-> 0]
    IN [key \in DOMAIN defaults |->
           IF key \notin DOMAIN save_data THEN defaults[key]
           ELSE IF key = "visible_caravans"
           THEN [i \in DOMAIN save_data[key] |->
                    LET caravan_data == save_data[key][i] IN
                    [q |-> caravan_data.q, r |-> caravan_data.r,
                     type |-> caravan_data.type,
                     escorts |-> caravan_data.escorts,
                     loot_value |-> caravan_data.loot_value,
                     movement_path |-> Get(caravan_data, "movement_path", << >>),
                     last_move_time |-> Get(caravan_data, "last_move_time", time)]]
           ELSE save_data[key]]

\* the Caravan load_game builds from one saved entry: the constructor draws
\* its own properties (pick: the end of each range drawn), then escorts,
\* loot_value, movement_path and last_move_time are overridden
LoadedCaravan(caravan_data, time, pick) ==
    [NewCaravan(caravan_data.q, caravan_data.r, caravan_data.type,
                EscortsRange(caravan_data.type)[pick],
                LootRange(caravan_data.type)[pick], << >>, time)
        EXCEPT !.escorts = caravan_data.escorts,
               !.loot_value = caravan_data.loot_value,
               !.movement_path = caravan_data.movement_path,
               !.last_move_time = caravan_data.last_move_time]

\* GameData.__init__ followed by load_game on an existing file, at clock
\* `time`: the exception load_game caught (None if none), the state and the
\* Caravan objects.  The assignments made before an exception stay made.
LoadGame(file, time, pick) ==
    LET fresh == DefaultGameData(time) IN
    IF file.state = "corrupt"
    THEN [raised |-> "JSONDecodeError", gd |-> fresh, heap |-> NoCaravans]
    ELSE LET save_data == WithDefaults(file.data, fresh, time)
             n == Len(save_data.visible_caravans)
             heap == [i \in 1..n |->
                         LoadedCaravan(save_data.visible_caravans[i], time, pick)]
             early ==
                 [fresh EXCEPT
                     !.resources = save_data.resources,
                     !.resource_rates = save_data.resource_rates,
                     !.resource_timers = save_data.resource_timers,
                     !.raiders_available = save_data.raiders_available,
                     !.max_raiders = save_data.max_raiders,
                     !.player_id = save_data.player_id,
                     !.clan_id = save_data.clan_id,
                     !.world_boss_active = save_data.world_boss_active,
                     !.world_boss_end_time = save_data.world_boss_end_time,
                     !.clan_damage_contributed = save_data.clan_damage_contributed,
                     !.daily_event_active = save_data.daily_event_active,
                     !.daily_event_end_time = save_data.daily_event_end_time,
                     !.weekly_event_active = save_data.weekly_event_active,
                     !.weekly_event_end_time = save_data.weekly_event_end_time,
                     !.gems = save_data.gems,
                     !.heroes = [i \in DOMAIN fresh.heroes |->
                                    IF i \in DOMAIN save_data.heroes
                                    THEN [level |-> save_data.heroes[i].level,
                                          available |-> save_data.heroes[i].available]
                                    ELSE fresh.heroes[i]],
                     !.camp_buildings =
                         [p \in {ParsePos(k) : k \in DOMAIN save_data.camp_buildings} |->
                             LET b == save_data.camp_buildings[PosKey(p[1], p[2])]
                             IN NewBuilding(b.type, b.level)],
                     !.unlocked_techs = save_data.tech_unlocked,
                     !.map_features =
                         [h \in {ParsePos(k) : k \in DOMAIN save_data.map_features} |->
                             save_data.map_features[PosKey(h[1], h[2])]],
                     !.visible_caravans = [i \in 1..n |-> i]]
         IN IF save_data.explored_hexes # {}
            THEN \* set() of a list of lists: unhashable type 'list'
                 [raised |-> "TypeError", gd |-> early, heap |-> heap]
            ELSE [raised |-> None,
                  gd |-> UpdateDerivedStats(
                             [early EXCEPT
                                 !.explored_hexes = {},
                                 !.last_water_update = save_data.last_water_update,
                                 !.last_sandstorm_check =
                                     save_data.last_sandstorm_check,
                                 !.sandstorm_active = save_data.sandstorm_active,
                                 !.sandstorm_duration = save_data.sandstorm_duration]),
                  heap |-> heap]

\* GameData.save_game (main.py on_pause and on_stop, the clan screen)
SaveGame ==
    /\ save_file' = [state |-> "written", data |-> SaveData(game_data, caravans)]
    /\ history' = [history EXCEPT
                      !.saved = [made |-> TRUE, game_data |-> game_data,
                                 caravans |-> caravans,
                                 boss_damage |-> history.boss_damage]]
    /\ call' = [op |-> "save_game"]
    /\ UNCHANGED <<game_data, caravans, raid_screen, monetization, now>>

\* The process ends and the app is started again: main.py builds GameData(),
\* whose __init__ ends in load_game, a new RaidScreen and a new
\* monetization_manager.
Restart(pick) ==
    /\ save_file.state # "absent"
    /\ LET loaded == LoadGame(save_file, now, pick) IN
          /\ game_data' = loaded.gd
          /\ caravans' = loaded.heap
          /\ call' = [op |-> "load_game", raised |-> loaded.raised, time |-> now]
    /\ raid_screen' = DefaultRaidScreen
    /\ monetization' = [gems |-> 0]
    /\ history' = [history EXCEPT
                      !.boss_damage = IF history.saved.made
                                      THEN history.saved.boss_damage ELSE 0]
    /\ UNCHANGED <<save_file, now>>

\* the save file is cut short (a write that did not complete)
TruncateSaveFile ==
    /\ save_file.state = "written"
    /\ save_file' = [state |-> "corrupt"]
    /\ call' = [op |-> "truncate_save_file"]
    /\ UNCHANGED <<game_data, caravans, raid_screen, monetization, now, history>>

----------------------------------------------------------------------------
(* The world-boss specification *)

DamageChoices == {4000, 6000}

BossInit ==
    /\ game_data = DefaultGameData(0)
    /\ caravans = NoCaravans
    /\ raid_screen = DefaultRaidScreen
    /\ save_file = NoSaveFile
    /\ monetization = [gems |-> 0]
    /\ now = 0
    /\ call = NoCall
    /\ history = NoHistory

BossNext ==
    \/ StartWorldBossEvent(EscortsRange("sandworm")[1], LootRange("sandworm")[1],
                           StraightPath(0, 0, 1, 0, 1, MinWaypoints))
    \/ \E damage \in DamageChoices : DealDamageToWorldBoss(damage)
    \/ EnterClanScreen
    \/ SaveGame
    \/ \E pick \in {1, 2} : Restart(pick)

SpecBoss == BossInit /\ [][BossNext]_vars

\* C7: during a world-boss event, the call of deal_damage_to_world_boss that
\* brings the cumulative damage of the event to the boss's max health ends
\* the event: world_boss_active is false, the boss is off the visible
\* caravans, and the reward is floor(1000 * contributor's damage / total).
C7_BossDefeatedWhenDamageReachesHealth ==
    (/\ call.op = "deal_damage_to_world_boss"
     /\ call.active
     /\ history.boss_damage >= SandwormHealth)
    => /\ ~game_data.world_boss_active
       /\ call.boss \notin SeqToSet(game_data.visible_caravans)
       /\ call.total > 0
       /\ call.reward = (1000 * call.contributed) \div call.total

----------------------------------------------------------------------------
(* The save specification: scouting, the world boss, saves and restarts *)

SaveInit ==
    /\ game_data = DefaultGameData(0)
    /\ caravans = NoCaravans
    /\ raid_screen = DefaultRaidScreen
    /\ save_file = NoSaveFile
    /\ monetization = [gems |-> 0]
    /\ now = 0
    /\ call = NoCall
    /\ history = NoHistory

SaveNext ==
    \/ \E found \in BOOLEAN, t \in RaidCaravanTypes :
          CompleteScouting(0, 0, found, t, EscortsRange(t)[1], LootRange(t)[1],
                           StraightPath(0, 0, 1, 0, 1, MinWaypoints))
    \/ StartWorldBossEvent(EscortsRange("sandworm")[1], LootRange("sandworm")[1],
                           StraightPath(0, 0, 1, 0, 1, MinWaypoints))
    \/ \E damage \in DamageChoices : DealDamageToWorldBoss(damage)
    \/ SaveGame
    \/ \E pick \in {1, 2} : Restart(pick)
    \/ TruncateSaveFile

SpecSave == SaveInit /\ [][SaveNext]_vars

\* C8: right after a load of the file save_game wrote, the visible caravans
\* are those of the saved state, each with the same position, type, escorts,
\* loot value, movement path, last-move time and scouted flag, and a boss
\* with the same current health and contributor damage map.
C8_CaravansSurviveSaveAndLoad ==
    (call.op = "load_game" /\ save_file.state = "written") =>
        LET old == history.saved.game_data.visible_caravans
            new == game_data.visible_caravans
        IN /\ Len(new) = Len(old)
           /\ \A i \in DOMAIN old :
                 LET a == history.saved.caravans[old[i]]
                     b == caravans[new[i]]
                 IN /\ b.q = a.q /\ b.r = a.r
                    /\ b.caravan_type = a.caravan_type
                    /\ b.escorts = a.escorts
                    /\ b.loot_value = a.loot_value
                    /\ b.movement_path = a.movement_path
                    /\ b.last_move_time = a.last_move_time
                    /\ b.is_scouted = a.is_scouted
                    /\ IsBossType(a.caravan_type) =>
                          /\ b.current_health = a.current_health
                          /\ b.clan_damage = a.clan_damage

\* C10: when load_game catches an exception, the state it leaves is the
\* default initial state: nothing read from the failing save stays.
C10_FailedLoadLeavesDefaults ==
    (call.op = "load_game" /\ call.raised # None) =>
        /\ game_data = DefaultGameData(call.time)
        /\ caravans = NoCaravans

----------------------------------------------------------------------------
(* game_data.py: daily and weekly events, check_event_timers *)

\* 24 * 60 * 60 seconds
DaySeconds == 24 * 60 * 60

\* daily and weekly events a run may start
MaxEvents == 2

\* GameData.start_daily_event: event_type is the random.choice; q, r,
\* escorts, loot_value and path are the draws for the caravan of a
\* 'caravan_alert'
StartDailyEvent(event_type, q, r, escorts, loot_value, path) ==
    /\ history.events < MaxEvents
    /\ event_type = "caravan_alert" => history.constructed < MaxCaravans
    /\ LET id == FreshId(caravans)
           gd == [game_data EXCEPT
                     !.daily_event_active = TRUE,
                     !.daily_event_type = event_type,
                     !.daily_event_end_time = now + DaySeconds]
       IN CASE event_type = "caravan_alert" ->
                 /\ game_data' = [gd EXCEPT !.visible_caravans = Append(@, id)]
                 /\ caravans' = (id :> NewCaravan(q, r, "gold", escorts, loot_value,
                                                  path, now)) @@ caravans
                 /\ history' = [history EXCEPT !.events = @ + 1,
                                               !.constructed = @ + 1]
            [] event_type = "resource_boost" ->
                 /\ game_data' = [gd EXCEPT
                                     !.resource_rates =
                                         [k \in DOMAIN @ |-> @[k] * 2]]
                 /\ caravans' = caravans
                 /\ history' = [history EXCEPT !.events = @ + 1]
            [] OTHER ->
                 /\ game_data' = gd
                 /\ caravans' = caravans
                 /\ history' = [history EXCEPT !.events = @ + 1]
    /\ call' = [op |-> "start_daily_event"]
    /\ UNCHANGED <<raid_screen, save_file, monetization, now>>

\* GameData.end_daily_event; a rate that is halved is one that was doubled
EndDailyEvent(gd) ==
    [gd EXCEPT
        !.resource_rates = IF gd.daily_event_type = "resource_boost"
                           THEN [k \in DOMAIN @ |-> @[k] \div 2] ELSE @,
        !.daily_event_active = FALSE,
        !.daily_event_type = None]

\* GameData.start_weekly_event
StartWeeklyEvent ==
    /\ history.events < MaxEvents
    /\ game_data' = [game_data EXCEPT
                        !.weekly_event_active = TRUE,
                        !.weekly_event_type = "black_gold_rush",
                        !.weekly_event_end_time = now + WeekSeconds]
    /\ history' = [history EXCEPT !.events = @ + 1]
    /\ call' = [op |-> "start_weekly_event"]
    /\ UNCHANGED <<caravans, raid_screen, save_file, monetization, now>>

\* GameData.check_event_timers at clock `now`
CheckEventTimers ==
    /\ LET daily == IF game_data.daily_event_active
                       /\ now >= game_data.daily_event_end_time
                    THEN EndDailyEvent(game_data) ELSE game_data
           weekly == IF daily.weekly_event_active
                        /\ now >= daily.weekly_event_end_time
                     THEN [daily EXCEPT !.weekly_event_active = FALSE,
                                        !.weekly_event_type = None]
                     ELSE daily
           boss == IF weekly.world_boss_active /\ now >= weekly.world_boss_end_time
                   THEN EndWorldBossEvent(weekly, caravans, monetization.gems)
                   ELSE [gd |-> weekly, gems |-> monetization.gems]
       IN /\ game_data' = boss.gd
          /\ caravans' = Collect(caravans, boss.gd, raid_screen)
          /\ monetization' = [gems |-> boss.gems]
    /\ call' = [op |-> "check_event_timers"]
    /\ UNCHANGED <<raid_screen, save_file, now, history>>

\* days of wall-clock time a run may cover
MaxDays == 7

\* time.time() moves on by `seconds`
AdvanceTime(seconds) ==
    /\ now + seconds <= MaxDays * DaySeconds
    /\ now' = now + seconds
    /\ call' = [op |-> "advance_time"]
    /\ UNCHANGED <<game_data, caravans, raid_screen, save_file, monetization,
                   history>>

----------------------------------------------------------------------------
(* The event specification: events, the clock, saves and restarts *)

DailyEventTypes == {"caravan_alert", "resource_boost", "raid_bonus"}

EventInit ==
    /\ game_data = DefaultGameData(0)
    /\ caravans = NoCaravans
    /\ raid_screen = DefaultRaidScreen
    /\ save_file = NoSaveFile
    /\ monetization = [gems |-> 0]
    /\ now = 0
    /\ call = NoCall
    /\ history = NoHistory

EventNext ==
    \/ \E event_type \in DailyEventTypes :
          StartDailyEvent(event_type, 2, 0 - 1, EscortsRange("gold")[1],
                          LootRange("gold")[1],
                          StraightPath(2, 0 - 1, 1, 0, 1, MinWaypoints))
    \/ StartWeeklyEvent
    \/ StartWorldBossEvent(EscortsRange("sandworm")[1], LootRange("sandworm")[1],
                           StraightPath(0, 0, 1, 0, 1, MinWaypoints))
    \/ CheckEventTimers
    \/ AdvanceTime(WeekSeconds)
    \/ SaveGame
    \/ \E pick \in {1, 2} : Restart(pick)

SpecEvents == EventInit /\ [][EventNext]_vars

\* C9: right after a load of the file save_game wrote, the daily, weekly and
\* world-boss events have the active flag, the end timestamp and the type of
\* the saved state, and an active world-boss event tracks the boss caravan
\* it tracked then.
C9_EventsSurviveSaveAndLoad ==
    (call.op = "load_game" /\ save_file.state = "written") =>
        LET old == history.saved.game_data IN
        /\ game_data.daily_event_active = old.daily_event_active
        /\ game_data.daily_event_end_time = old.daily_event_end_time
        /\ game_data.daily_event_type = old.daily_event_type
        /\ game_data.weekly_event_active = old.weekly_event_active
        /\ game_data.weekly_event_end_time = old.weekly_event_end_time
        /\ game_data.weekly_event_type = old.weekly_event_type
        /\ game_data.world_boss_active = old.world_boss_active
        /\ game_data.world_boss_end_time = old.world_boss_end_time
        /\ \A i \in DOMAIN old.visible_caravans :
              old.world_boss_caravan = old.visible_caravans[i]
                  => game_data.world_boss_caravan = game_data.visible_caravans[i]

----------------------------------------------------------------------------
(* Raid resolution: completion, removal of the target *)

\* C11: execute_raid completes without an exception for every squad size,
\* 0 and negative ones included, and leaves raiders_available >= 0, the
\* target off the visible caravans and every hero available again.
C11_RaidCompletesForAnySquad ==
    call.op = "execute_raid" =>
        /\ call.raised = None
        /\ game_data.raiders_available >= 0
        /\ call.caravan \notin SeqToSet(game_data.visible_caravans)
        /\ \A i \in DOMAIN game_data.heroes : game_data.heroes[i].available

\* C12: an execute_raid that resolves, won or lost, leaves the visible
\* caravans as they were but for the target, which is no longer among them.
C12_ResolvedRaidRemovesOnlyTarget ==
    [][(/\ call'.op = "execute_raid"
        /\ history'.raids # history.raids
        /\ call'.raised = None)
       => /\ call'.caravan \notin SeqToSet(game_data'.visible_caravans)
          /\ game_data'.visible_caravans =
                 SelectSeq(game_data.visible_caravans,
                           LAMBDA id : id # call'.caravan)]_vars

\* a lost raid resolved while a second caravan was visible, which still is
C12_Witness ==
    /\ call.op = "execute_raid"
    /\ call.raised = None
    /\ ~call.success
    /\ raid_screen.resolved
    /\ Len(game_data.visible_caravans) = 1
    /\ call.caravan \notin SeqToSet(game_data.visible_caravans)

----------------------------------------------------------------------------
(* The hero specification: assign_heroes_to_raid and return_heroes_from_raid *)
(* called in any order                                                      *)

\* GameData.assign_heroes_to_raid(hero_indices)
CallAssignHeroesToRaid(hero_indices) ==
    /\ LET done == AssignHeroesToRaid(game_data.heroes, hero_indices) IN
          /\ game_data' = [game_data EXCEPT !.heroes = done.heroes]
          /\ history' = [history EXCEPT
                            !.held = [i \in DOMAIN @ |->
                                         @[i] + Cardinality({j \in DOMAIN done.assigned :
                                                                done.assigned[j] = i})]]
          /\ call' = [op |-> "assign_heroes_to_raid",
                      hero_indices |-> hero_indices, assigned |-> done.assigned]
    /\ UNCHANGED <<caravans, raid_screen, save_file, monetization, now>>

\* GameData.return_heroes_from_raid(heroes)
CallReturnHeroesFromRaid(heroes) ==
    /\ game_data' = [game_data EXCEPT !.heroes = ReturnHeroesFromRaid(@, heroes)]
    /\ history' = [history EXCEPT
                      !.held = [i \in DOMAIN @ |->
                                   IF \E j \in DOMAIN heroes : heroes[j] = i
                                   THEN 0 ELSE @[i]]]
    /\ call' = [op |-> "return_heroes_from_raid", heroes |-> heroes]
    /\ UNCHANGED <<caravans, raid_screen, save_file, monetization, now>>

\* hero indices passed to assign: heroes 1, 2, 3 and 5 and one index beyond
\* each end of the list
HeroIndexChoices == {0, 1, 2, 3, NumHeroes, NumHeroes + 1}

\* the lists of at most two entries over a set
ShortLists(S) == {<< >>} \cup {<<a>> : a \in S} \cup {<<a, b>> : a \in S, b \in S}

HeroInit ==
    /\ game_data = DefaultGameData(0)
    /\ caravans = NoCaravans
    /\ raid_screen = DefaultRaidScreen
    /\ save_file = NoSaveFile
    /\ monetization = [gems |-> 0]
    /\ now = 0
    /\ call = NoCall
    /\ history = NoHistory

HeroNext ==
    \/ \E hero_indices \in ShortLists(HeroIndexChoices) :
          CallAssignHeroesToRaid(hero_indices)
    \/ \E heroes \in ShortLists(HeroIndexChoices \cap (1..NumHeroes)) :
          CallReturnHeroesFromRaid(heroes)

SpecHeroes == HeroInit /\ [][HeroNext]_vars

\* C13: a hero handed out by an assign call is unavailable and is handed
\* out by no further assign call until a return call has been given it: no
\* hero is held by two unreturned assignments.
C13_HeroHeldByOneAssignment ==
    /\ \A i \in DOMAIN game_data.heroes :
          /\ history.held[i] <= 1
          /\ history.held[i] = 1 => ~game_data.heroes[i].available
    /\ call.op = "assign_heroes_to_raid" =>
          \A j \in DOMAIN call.assigned : history.held[call.assigned[j]] = 1

\* an assign call asked for a hero still out and one that is free, and handed
\* out the free one only
C13_Witness ==
    /\ call.op = "assign_heroes_to_raid"
    /\ call.hero_indices = <<1, 2>>
    /\ call.assigned = <<2>>
    /\ history.held[1] = 1 /\ history.held[2] = 1

----------------------------------------------------------------------------
(* Resource generation: independence of the tick rate *)

\* C15: one generate_resources(a + b) call leaves the stocks and the
\* accumulators that generate_resources(a) followed by generate_resources(b)
\* leaves from the same state, for all a, b >= 0.
C15_GenerationIsTickRateIndependent ==
    call.op = "generate_resources" =>
        \A a \in 0..call.dt :
            LET first == GenerateResources(call.before, a).gd
                second == GenerateResources(first, call.dt - a).gd
            IN /\ second.resources = game_data.resources
               /\ second.resource_timers = game_data.resource_timers

----------------------------------------------------------------------------
(* utils.py: hex distance, neighbours and A* path finding *)

\* hexes whose axial coordinates lie in -MaxCoord..MaxCoord
MaxCoord == 2

Abs(x) == IF x < 0 THEN 0 - x ELSE x

GetHexDistanceSigned(q1, r1, q2, r2) ==
    (Abs(q1 - q2) + Abs(r1 - r2) + (q1 + r1 - q2 - r2)) \div 2

\* HexGrid.get_hex_distance
GetHexDistance(q1, r1, q2, r2) ==
    (Abs(q1 - q2) + Abs(r1 - r2) + Abs(q1 + r1 - q2 - r2)) \div 2

directions ==
    << <<1, 0>>, <<1, 0 - 1>>, <<0, 0 - 1>>, <<0 - 1, 0>>, <<0 - 1, 1>>, <<0, 1>> >>

\* HexGrid.get_hex_neighbors: the list of the six neighbours, in order
GetHexNeighbors(q, r) ==
    [i \in 1..Len(directions) |-> <<q + directions[i][1], r + directions[i][2]>>]

\* AStarPathfinder._heuristic
Heuristic(a, b) == GetHexDistance(a[1], a[2], b[1], b[2])

RECURSIVE ReconstructLoop(_, _, _)
ReconstructLoop(came_from, current, path) ==
    IF current \in DOMAIN came_from
    THEN ReconstructLoop(came_from, came_from[current],
                         <<came_from[current]>> \o path)
    ELSE path

ReconstructPathWithoutStart(came_from, current) ==
    Tail(ReconstructLoop(came_from, current, <<current>>))

\* AStarPathfinder._reconstruct_path: follow came_from back, then reverse
ReconstructPath(came_from, current) ==
    ReconstructLoop(came_from, current, <<current>>)

\* Python's order on the tuples (f_score, (q, r)) of the open set
EntryLess(e1, e2) ==
    \/ e1[1] < e2[1]
    \/ e1[1] = e2[1] /\ e1[2][1] < e2[2][1]
    \/ e1[1] = e2[1] /\ e1[2][1] = e2[2][1] /\ e1[2][2] < e2[2][2]

\* index of min(open_set): the first entry no other entry is less than
MinIndex(open_set) ==
    CHOOSE k \in 1..Len(open_set) :
        /\ \A j \in 1..Len(open_set) : ~EntryLess(open_set[j], open_set[k])
        /\ \A j \in 1..(k - 1) : EntryLess(open_set[k], open_set[j])

RemoveAt(s, k) == SubSeq(s, 1, k - 1) \o SubSeq(s, k + 1, Len(s))

\* the loop over the neighbours of current (utils.py 205-218)
RECURSIVE ExpandLoop(_, _, _, _, _, _)
ExpandLoop(search, current, goal, obstacles, neighbors, i) ==
    IF i > Len(neighbors) THEN search
    ELSE LET neighbor == neighbors[i]
             tentative_g == search.g_score[current] + 1
             f == tentative_g + Heuristic(neighbor, goal)
             better == IF neighbor \in DOMAIN search.g_score
                       THEN tentative_g < search.g_score[neighbor]
                       ELSE TRUE
             queued == \E k \in 1..Len(search.open_set) :
                           search.open_set[k][2] = neighbor
             found == [open_set |-> IF queued THEN search.open_set
                                    ELSE Append(search.open_set, <<f, neighbor>>),
                       g_score |-> (neighbor :> tentative_g) @@ search.g_score,
                       came_from |-> (neighbor :> current) @@ search.came_from]
         IN IF neighbor \in obstacles \/ ~better
            THEN ExpandLoop(search, current, goal, obstacles, neighbors, i + 1)
            ELSE ExpandLoop(found, current, goal, obstacles, neighbors, i + 1)

\* the while loop over the open set (utils.py 196-220)
RECURSIVE SearchLoop(_, _, _)
SearchLoop(search, goal, obstacles) ==
    IF search.open_set = << >> THEN << >>
    ELSE LET k == MinIndex(search.open_set)
             current == search.open_set[k][2]
             popped == [search EXCEPT !.open_set = RemoveAt(search.open_set, k)]
         IN IF current = goal THEN ReconstructPath(search.came_from, current)
            ELSE SearchLoop(ExpandLoop(popped, current, goal, obstacles,
                                       GetHexNeighbors(current[1], current[2]), 1),
                            goal, obstacles)

\* AStarPathfinder.find_path
FindPath(start, goal, obstacles) ==
    IF start \in obstacles \/ goal \in obstacles THEN << >>
    ELSE SearchLoop([open_set |-> << <<Heuristic(start, goal), start>> >>,
                     g_score |-> (start :> 0),
                     came_from |-> << >>],
                    goal, obstacles)

\* a caller asks for the distance between the two hexes
QueryHexDistance ==
    /\ call.op = None
    /\ call' = [op |-> "get_hex_distance", a |-> call.a, b |-> call.b,
                distance |-> GetHexDistance(call.a[1], call.a[2], call.b[1], call.b[2]),
                reverse |-> GetHexDistance(call.b[1], call.b[2], call.a[1], call.a[2])]
    /\ UNCHANGED <<game_data, caravans, raid_screen, save_file, monetization, now,
                   history>>

\* a caller asks for the neighbours of the first hex
QueryHexNeighbors ==
    /\ call.op = None
    /\ call' = [op |-> "get_hex_neighbors", a |-> call.a,
                neighbors |-> GetHexNeighbors(call.a[1], call.a[2])]
    /\ UNCHANGED <<game_data, caravans, raid_screen, save_file, monetization, now,
                   history>>

\* a caller asks for a path between the two hexes
CallFindPath ==
    /\ call.op = None
    /\ call' = [op |-> "find_path", start |-> call.a, goal |-> call.b,
                obstacles |-> call.obstacles,
                path |-> FindPath(call.a, call.b, call.obstacles)]
    /\ UNCHANGED <<game_data, caravans, raid_screen, save_file, monetization, now,
                   history>>

Hexes == ((0 - MaxCoord)..MaxCoord) \X ((0 - MaxCoord)..MaxCoord)

\* no obstacles, or one hex that cannot be traversed
ObstacleChoices == {{}, {<<0, 0>>}}

\* the arguments of the call are drawn from the bounded hexes
HexInit ==
    /\ game_data = DefaultGameData(0)
    /\ caravans = NoCaravans
    /\ raid_screen = DefaultRaidScreen
    /\ save_file = NoSaveFile
    /\ monetization = [gems |-> 0]
    /\ now = 0
    /\ \E a \in Hexes, b \in Hexes, obstacles \in ObstacleChoices :
           call = [op |-> None, a |-> a, b |-> b, obstacles |-> obstacles]
    /\ history = NoHistory

HexNext ==
    \/ QueryHexDistance
    \/ QueryHexNeighbors
    \/ CallFindPath

SpecHex == HexInit /\ [][HexNext]_vars

\* C16: get_hex_distance is symmetric and zero from a hex to itself, and
\* get_hex_neighbors returns six distinct hexes, each at distance 1.
C16_DistanceSymmetricNeighborsAdjacent ==
    /\ call.op = "get_hex_distance" =>
           /\ call.distance = call.reverse
           /\ (call.a = call.b => call.distance = 0)
    /\ call.op = "get_hex_neighbors" =>
           /\ Len(call.neighbors) = 6
           /\ Cardinality(SeqToSet(call.neighbors)) = 6
           /\ \A i \in 1..Len(call.neighbors) :
                  GetHexDistance(call.a[1], call.a[2],
                                 call.neighbors[i][1], call.neighbors[i][2]) = 1

C16_Witness ==
    /\ call.op = "get_hex_distance"
    /\ call.a = <<0 - MaxCoord, MaxCoord>>
    /\ call.b = <<MaxCoord, 0 - MaxCoord>>
    /\ call.distance = 2 * MaxCoord

\* C17: with no obstacles and start # goal, find_path returns a path of exactly
\* distance + 1 hexes that starts at start, ends at goal and moves between
\* neighbouring hexes.
C17_PathHasDistancePlusOneHexes ==
    (call.op = "find_path" /\ call.obstacles = {} /\ call.start # call.goal) =>
        /\ Len(call.path) = Heuristic(call.start, call.goal) + 1
        /\ call.path[1] = call.start
        /\ call.path[Len(call.path)] = call.goal
        /\ \A i \in 1..(Len(call.path) - 1) :
               Heuristic(call.path[i], call.path[i + 1]) = 1

C17_Witness ==
    /\ call.op = "find_path"
    /\ call.obstacles = {}
    /\ call.start = <<MaxCoord, 0 - MaxCoord>>
    /\ call.goal = <<0 - MaxCoord, MaxCoord>>
    /\ Len(call.path) = 2 * MaxCoord + 1

----------------------------------------------------------------------------
(* Upgrade costs of the buildings of a camp *)

CostCells == {<<0, 0>>, <<0, 1>>}

\* Building(building_type, level) for every type and every level 1..max_level
Buildings == {NewBuilding(t, l) : t \in BuildingTypeSet, l \in 1..MaxLevel}

\* calculate_upgrade_cost() of the building at pos, and of a building of the
\* same type one level higher
QueryUpgradeCost(pos) ==
    /\ pos \in DOMAIN game_data.camp_buildings
    /\ LET building == game_data.camp_buildings[pos] IN
       call' = [op |-> "calculate_upgrade_cost",
                building_type |-> building.building_type,
                level |-> building.level,
                cost |-> CalculateUpgradeCost(building.building_type, building.level),
                next |-> CalculateUpgradeCost(building.building_type,
                                              building.level + 1)]
    /\ UNCHANGED <<game_data, caravans, raid_screen, save_file, monetization, now,
                   history>>

\* a camp whose cells are empty or hold a building of any type and level
CostInit ==
    /\ \E cells \in SUBSET CostCells :
       \E camp \in [cells -> Buildings] :
          game_data = UpdateDerivedStats(
                          [DefaultGameData(0) EXCEPT !.camp_buildings = camp])
    /\ caravans = NoCaravans
    /\ raid_screen = DefaultRaidScreen
    /\ save_file = NoSaveFile
    /\ monetization = [gems |-> 0]
    /\ now = 0
    /\ call = NoCall
    /\ history = NoHistory

CostNext == \E pos \in CostCells : QueryUpgradeCost(pos)

SpecCost == CostInit /\ [][CostNext]_vars

\* C18: for every building type, every level 1..max_level and every resource
\* of the base cost, the floored upgrade cost at level + 1 is strictly
\* greater than the one at level.
C18_UpgradeCostStrictlyIncreasing ==
    call.op = "calculate_upgrade_cost" =>
        \A resource \in DOMAIN call.cost : call.next[resource] > call.cost[resource]

C18_Witness ==
    /\ call.op = "calculate_upgrade_cost"
    /\ call.building_type = "watchtower"
    /\ call.level = MaxLevel
    /\ call.cost["spices"] = 11
    /\ call.next["spices"] = 16

----------------------------------------------------------------------------
(* game_data.py: the per-frame update *)

\* update_water_consumption(dt): the population drinks 0.1 water per head and
\* second; dt is a multiple of 10 in every tick of the model, which keeps
\* the stock a whole number
UpdateWaterConsumption(gd, dt) ==
    LET population == gd.raiders_available
                      + (IF "slaves" \in DOMAIN gd.resources
                         THEN gd.resources["slaves"] ELSE 0)
        water == Max(0, gd.resources["water"] - (population * dt) \div 10)
    IN [gd EXCEPT !.resources["water"] = water,
                  !.raiders_available = IF water <= 0 THEN Max(1, @ - 1) ELSE @]

StartSandstormUnfloored(gd, duration, damaged) ==
    [gd EXCEPT !.sandstorm_active = TRUE,
               !.sandstorm_duration = duration,
               !.camp_buildings =
                   [pos \in DOMAIN @ |->
                       IF pos \in damaged
                       THEN [@[pos] EXCEPT !.level = @ - 1]
                       ELSE @[pos]]]

\* start_sandstorm: `damaged` holds the positions whose draw
\* random.random() < damage_chance succeeds (damage_chance lies in [0.1, 0.3],
\* so every set of positions is a possible outcome); a hit building above
\* level 1 loses one level, and nothing else of it is touched
StartSandstorm(gd, duration, damaged) ==
    [gd EXCEPT !.sandstorm_active = TRUE,
               !.sandstorm_duration = duration,
               !.camp_buildings =
                   [pos \in DOMAIN @ |->
                       IF pos \in damaged /\ @[pos].level > 1
                       THEN [@[pos] EXCEPT !.level = @ - 1]
                       ELSE @[pos]]]

\* end_sandstorm
EndSandstorm(gd) ==
    [gd EXCEPT !.sandstorm_active = FALSE, !.sandstorm_duration = 0]

\* update_sandstorm(current_time): threshold is the draw of
\* random.uniform(300, 900), storm the outcome of random.random() < 0.2
UpdateSandstorm(gd, current_time, threshold, storm, duration, damaged) ==
    LET checked ==
            IF current_time - gd.last_sandstorm_check > threshold
            THEN LET marked == [gd EXCEPT !.last_sandstorm_check = current_time]
                 IN IF storm THEN StartSandstorm(marked, duration, damaged)
                    ELSE marked
            ELSE gd
        left == checked.sandstorm_duration
                    - (current_time - checked.last_water_update)
        blown ==
            IF checked.sandstorm_active
            THEN IF left <= 0 THEN EndSandstorm(checked)
                 ELSE [checked EXCEPT !.sandstorm_duration = left]
            ELSE checked
    IN [blown EXCEPT !.last_water_update = current_time]

\* update_building_production(dt)
UpdateBuildingProduction(gd, dt) ==
    LET auto_gold == GetTotalBuildingEffect(gd.camp_buildings, "auto_gold")
        auto_salt == GetTotalBuildingEffect(gd.camp_buildings, "auto_salt")
    IN [gd EXCEPT
           !.resource_timers["gold"] = IF auto_gold > 0 THEN @ + auto_gold * dt ELSE @,
           !.resource_timers["salt"] = IF auto_salt > 0 THEN @ + auto_salt * dt ELSE @]

\* GameData.update(dt) at wall-clock time `now`; call.frame is the parity of
\* the frame counter, call.started tells whether the frame ran start_sandstorm
Update(dt, threshold, storm, duration, damaged) ==
    /\ history.elapsed + dt <= MaxElapsed
    /\ \E generated \in {GenerateResources(game_data, dt)} :
          IF generated.raised # None THEN game_data' = generated.gd
          ELSE \E watered \in {UpdateWaterConsumption(generated.gd, dt)} :
               \E blown \in {UpdateSandstorm(watered, now, threshold, storm,
                                             duration, damaged)} :
                   game_data' = UpdateBuildingProduction(blown, dt)
    /\ history' = [history EXCEPT !.elapsed = @ + dt]
    /\ call' = [op |-> "update", dt |-> dt,
                frame |-> IF call.op = "update" THEN 1 - call.frame ELSE 0,
                started |-> /\ GenerateResources(game_data, dt).raised = None
                            /\ now - game_data.last_sandstorm_check > threshold
                            /\ storm]
    /\ UNCHANGED <<caravans, raid_screen, save_file, monetization, now>>

\* frame times of the ticks
TickChoices == {0, 250}

\* draws of random.uniform(300, 900) and of random.uniform(30, 120)
SandstormCheckChoices == {300, 900}

SandstormDurationChoices == {30, 120}

----------------------------------------------------------------------------
(* The sandstorm specification: a camp that is built, upgraded, hit by *)
(* sandstorms, saved and loaded                                        *)

\* seconds of wall-clock time a run of this specification may cover, and the
\* seconds between two looks at the clock
StormSeconds == 400

StormStep == 100

StormCells == {<<0, 0>>}

\* the clock moves on by one step
PassStormTime ==
    /\ now < StormSeconds
    /\ AdvanceTime(StormStep)

StormNext ==
    \/ \E pos \in StormCells, t \in CampTypes : CallPlaceBuilding(pos[1], pos[2], t)
    \/ \E pos \in StormCells : OnGridClick(pos[1], pos[2])
    \/ \E pos \in StormCells : CallUpgradeBuilding(pos[1], pos[2])
    \/ \E threshold \in SandstormCheckChoices, storm \in BOOLEAN,
          duration \in SandstormDurationChoices, damaged \in SUBSET StormCells :
          Update(0, threshold, storm, duration, damaged)
    \/ PassStormTime
    \/ SaveGame
    \/ Restart(1)

SpecStorm == CampInit /\ [][StormNext]_vars

\* C19: in every reachable state, each building's stored upgrade_cost is
\* floor(base * 1.5^(level - 1)) for its current level.
C19_StoredCostMatchesLevel ==
    \A pos \in DOMAIN game_data.camp_buildings :
        LET building == game_data.camp_buildings[pos] IN
            building.upgrade_cost
                = CalculateUpgradeCost(building.building_type, building.level)

\* C20: the derived stats match the buildings: max_raiders is 50 plus 5 per
\* tent level, the water rate 1.0 plus 0.5 per well level.
C20_DerivedStatsMatchBuildings ==
    /\ game_data.max_raiders
           = 50 + GetTotalBuildingEffect(game_data.camp_buildings, "housing")
    /\ game_data.resource_rates["water"]
           = RateScale + GetTotalBuildingEffect(game_data.camp_buildings, "water_rate")

----------------------------------------------------------------------------
(* The tick specification: events are started, the clock moves on, and *)
(* main.py's Clock.schedule_interval(self.update, 1.0 / 60.0) keeps    *)
(* calling GameData.update                                             *)

\* SaharaRaidersApp.update(dt): one scheduled frame
Tick ==
    \E dt \in TickChoices, threshold \in SandstormCheckChoices, storm \in BOOLEAN,
       duration \in SandstormDurationChoices :
        Update(dt, threshold, storm, duration, {})

TickNext ==
    \/ StartDailyEvent("resource_boost", 0, 0, EscortsRange("gold")[1],
                       LootRange("gold")[1],
                       StraightPath(0, 0, 1, 0, 1, MinWaypoints))
    \/ StartWeeklyEvent
    \/ StartWorldBossEvent(EscortsRange("sandworm")[1], LootRange("sandworm")[1],
                           StraightPath(0, 0, 1, 0, 1, MinWaypoints))
    \/ AdvanceTime(WeekSeconds)
    \/ Tick

\* the frames keep coming as long as the app runs
SpecTick == EventInit /\ [][TickNext]_vars /\ WF_vars(Tick)

\* C14: when a daily, weekly or world-boss event is active and the wall clock
\* has reached its end timestamp, the ticking of update eventually ends it.
C14_ExpiredEventsEndUnderTicking ==
    /\ (game_data.daily_event_active /\ now >= game_data.daily_event_end_time)
           ~> ~game_data.daily_event_active
    /\ (game_data.weekly_event_active /\ now >= game_data.weekly_event_end_time)
           ~> ~game_data.weekly_event_active
    /\ (game_data.world_boss_active /\ now >= game_data.world_boss_end_time)
           ~> ~game_data.world_boss_active

----------------------------------------------------------------------------
(* The weather specification: frames and the clock, with long gaps between *)
(* frames (the app paused or in the background)                            *)

\* seconds of wall-clock time a run of this specification may cover
WeatherSeconds == 800

PassWeatherTime ==
    /\ now < WeatherSeconds
    /\ AdvanceTime(StormStep)

WeatherNext ==
    \/ \E threshold \in SandstormCheckChoices, storm \in BOOLEAN,
          duration \in SandstormDurationChoices :
          Update(0, threshold, storm, duration, {})
    \/ PassWeatherTime

SpecWeather == EventInit /\ [][WeatherNext]_vars

\* C21: start_sandstorm takes effect only when no sandstorm is active.
C21_NoStartWhileSandstormActive ==
    [][(call'.op = "update" /\ call'.started) => ~game_data.sandstorm_active]_vars

----------------------------------------------------------------------------
(* Raids: loot, bonuses, squads and losses *)

\* C22: on a successful raid the stocks gain, captured slaves aside, the
\* caravan's loot value in total, each kind by its share, whether or not the
\* caravan had been scouted.
C22_SuccessfulRaidAddsLootValue ==
    [][(call'.op = "execute_raid" /\ call'.raised = None /\ call'.success)
          => LET gained == [k \in ResourceNames |->
                               game_data'.resources[k] - game_data.resources[k]]
             IN /\ SumOver(gained, ResourceNames) - call'.slaves_captured
                       = caravans[call'.caravan].loot_value
                /\ \A k \in ResourceNames \ {"slaves"} :
                       gained[k] = call'.loot_gained[k]]_vars

----------------------------------------------------------------------------
(* Research: the stored tier along sequences of research operations *)

\* C24: a branch's stored tier never decreases; a successful research of
\* tier t deducts exactly tier t's cost and sets the tier to t; a research
\* that is ineligible or unaffordable changes neither the resources nor the
\* tech tree.
C24_StoredTierNeverDecreases ==
    [][/\ \A branch \in ResearchedBranches :
              UnlockedTier(game_data'.unlocked_techs, branch)
                  >= UnlockedTier(game_data.unlocked_techs, branch)
       /\ (call'.op = "research_tech" /\ call'.researched) =>
              /\ UnlockedTier(game_data'.unlocked_techs, call'.branch) = call'.tier
              /\ \A k \in ResourceNames :
                     game_data.resources[k] - game_data'.resources[k]
                         = Stock(TechCost(call'.branch, call'.tier), k)
       /\ (call'.op = "research_tech" /\ ~call'.researched) =>
              /\ game_data'.resources = game_data.resources
              /\ game_data'.unlocked_techs = game_data.unlocked_techs]_vars

----------------------------------------------------------------------------
(* Upgrades through the API *)

\* C25: upgrade_building(x, y) returns true iff a building stands at (x, y),
\* its level is below the max level and its current upgrade_cost is
\* affordable; on success each stock falls by exactly that cost and the level
\* rises by 1; on failure resources, level and upgrade_cost are unchanged.
C25_UpgradeBuildingChargesCurrentCost ==
    call.op = "upgrade_building" =>
        LET pos == <<call.x, call.y>>
            old == call.before
            exists == pos \in DOMAIN old.camp_buildings
            building == old.camp_buildings[pos]
            allowed == /\ exists
                       /\ building.level < MaxLevel
                       /\ \A resource \in DOMAIN building.upgrade_cost :
                              old.resources[resource] >= building.upgrade_cost[resource]
        IN /\ call.ret <=> allowed
           /\ call.ret =>
                  /\ \A k \in ResourceNames :
                         old.resources[k] - game_data.resources[k]
                             = Stock(building.upgrade_cost, k)
                  /\ game_data.camp_buildings[pos].level = building.level + 1
           /\ ~call.ret =>
                  /\ game_data.resources = old.resources
                  /\ game_data.camp_buildings = old.camp_buildings

\* an upgrade to the max level that was paid for
C25_Witness ==
    /\ call.op = "upgrade_building"
    /\ call.ret
    /\ call.before.camp_buildings[<<call.x, call.y>>].level = MaxLevel - 1
    /\ game_data.camp_buildings[<<call.x, call.y>>].level = MaxLevel
    /\ game_data.resources["gold"] < call.before.resources["gold"]

----------------------------------------------------------------------------
(* The thirst specification: raids that cost raiders and bring slaves, and *)
(* frames in which the population drinks                                   *)

\* a squad the player can still send after one raider has deserted
LargeSquad == 9

ThirstNext ==
    \/ CompleteScouting(0, 0, TRUE, "salt", EscortsRange("salt")[1],
                        LootRange("salt")[1],
                        StraightPath(0, 0, 1, 0, 1, MinWaypoints))
    \/ \E id \in DOMAIN caravans : PrepareRaid(id)
    \/ OnRaiderSliderChange(LargeSquad)
    \/ ExecuteRaid
    \/ \E dt \in TickChoices \ {0}, threshold \in SandstormCheckChoices \ {300} :
          Update(dt, threshold, FALSE, 0, {})

SpecThirst == RaidInit /\ [][ThirstNext]_vars

\* C26: a frame whose water consumption leaves the stock at 0 lowers the
\* raider count by one or leaves it at 1, never raising it and never taking
\* it below 1; a frame that leaves water above 0 leaves the count as it was.
C26_DehydrationLowersRaidersToOneAtMost ==
    [][call'.op = "update"
          => IF game_data'.resources["water"] = 0
             THEN \/ /\ game_data'.raiders_available = game_data.raiders_available - 1
                     /\ game_data'.raiders_available >= 1
                  \/ /\ game_data'.raiders_available = 1
                     /\ game_data.raiders_available = 1
             ELSE game_data'.raiders_available = game_data.raiders_available]_vars


----------------------------------------------------------------------------
(* Squad size against the raiders the camp has *)

\* C27: whenever execute_raid resolves a raid, the squad size it used is
\* between 0 and the raiders_available of the state it ran in, and the
\* raiders it lost are no more than those raiders.
C27_SquadWithinRaidersAvailable ==
    [][(call'.op = "execute_raid" /\ call'.raised = None)
          => /\ 0 <= call'.squad
             /\ call'.squad <= game_data.raiders_available
             /\ call'.raiders_lost <= game_data.raiders_available]_vars


\* C28: a raid that succeeds loses between 0 and max(1, squad div 3)
\* raiders; a raid that fails loses between 1 and squad raiders and changes
\* no resource stock; in both outcomes raiders_available afterwards is
\* max(0, raiders_available before - raiders lost).
C28_RaidLossesBoundedByOutcome ==
    [][(call'.op = "execute_raid" /\ call'.raised = None)
          => /\ IF call'.success
                THEN /\ 0 <= call'.raiders_lost
                     /\ call'.raiders_lost <= Max(1, call'.squad \div 3)
                ELSE /\ 1 <= call'.raiders_lost
                     /\ call'.raiders_lost <= call'.squad
                     /\ game_data'.resources = game_data.resources
             /\ game_data'.raiders_available =
                   Max(0, game_data.raiders_available - call'.raiders_lost)]_vars

\* a failed raid that lost more raiders than the camp had
C28_Witness ==
    /\ call.op = "execute_raid"
    /\ call.raised = None
    /\ ~call.success
    /\ call.raiders_lost > call.raiders_before
    /\ game_data.raiders_available = 0


\* C29: after execute_raid, whichever way the raid went, every hero it
\* assigned (every selected hero that was available when it began) is
\* available again.
C29_AssignedHeroesAvailableAgain ==
    [][call'.op = "execute_raid"
          => \A i \in DOMAIN game_data.heroes :
                (/\ i \in SeqToSet(raid_screen.selected_heroes)
                 /\ game_data.heroes[i].available)
                => game_data'.heroes[i].available]_vars


----------------------------------------------------------------------------
(* The boss-raid specification: the world boss is started, damaged, raided *)
(* like any visible caravan and timed out                                  *)

\* one blow of the clan on the boss
BossRaidDamage == 6000

BossRaidNext ==
    \/ StartWorldBossEvent(EscortsRange("sandworm")[1], LootRange("sandworm")[1],
                           StraightPath(0, 0, 1, 0, 1, MinWaypoints))
    \/ DealDamageToWorldBoss(BossRaidDamage)
    \/ \E id \in DOMAIN caravans : PrepareRaid(id)
    \/ ExecuteRaid
    \/ CheckEventTimers
    \/ AdvanceTime(WeekSeconds)

SpecBossRaid == BossInit /\ [][BossRaidNext]_vars

\* C30: while world_boss_active is true, world_boss_caravan is set and is one
\* of the visible caravans.
C30_ActiveBossIsVisible ==
    game_data.world_boss_active =>
        /\ game_data.world_boss_caravan # NoCaravan
        /\ game_data.world_boss_caravan \in SeqToSet(game_data.visible_caravans)


----------------------------------------------------------------------------
(* The boost specification: one resource_boost event at a time, wells      *)
(* placed and upgraded while it runs, the clock and the event timers       *)

BoostCells == {<<0, 0>>}

BoostNext ==
    \/ /\ ~game_data.daily_event_active
       /\ StartDailyEvent("resource_boost", 0, 0, EscortsRange("gold")[1],
                          LootRange("gold")[1],
                          StraightPath(0, 0, 1, 0, 1, MinWaypoints))
    \/ \E pos \in BoostCells : CallPlaceBuilding(pos[1], pos[2], "well")
    \/ \E pos \in BoostCells : CallUpgradeBuilding(pos[1], pos[2])
    \/ CheckEventTimers
    \/ AdvanceTime(DaySeconds)
    \/ SaveGame
    \/ Restart(1)

SpecBoost == EventInit /\ [][BoostNext]_vars

\* the rates of a camp on which no event runs: update_derived_stats' water
\* rate and the initial rates of the other resources
RatesWithoutEvent(gd) ==
    [k \in DOMAIN gd.resource_rates |->
        IF k = "water"
        THEN RateScale + GetTotalBuildingEffect(gd.camp_buildings, "water_rate")
        ELSE DefaultGameData(0).resource_rates[k]]

\* C31: when check_event_timers ends a resource_boost daily event, every
\* resource rate is what it would be without the event, whatever was placed,
\* upgraded, saved or loaded while the event ran.
C31_ResourceBoostIsNeutralOnceOver ==
    [][(/\ call'.op = "check_event_timers"
        /\ game_data.daily_event_active
        /\ ~game_data'.daily_event_active)
          => game_data'.resource_rates = RatesWithoutEvent(game_data')]_vars


----------------------------------------------------------------------------
(* The search specification: find_path one iteration of its while loop at  *)
(* a time, on the unbounded grid                                           *)

\* iterations of the while loop the model records node by node
MaxPops == 12

\* the six hexes around a hex
Ring(h) == SeqToSet(GetHexNeighbors(h[1], h[2]))

SearchHexes == {<<0, 0>>, <<2, 0>>, <<0 - 1, 2>>, <<0, 0 - 2>>}

\* no obstacle, one hex beside a goal, one hex that is a start or a goal, a
\* wall of three hexes east of the origin, a ring around the origin
SearchObstacles ==
    {{}, {<<0 - 1, 1>>}, {<<2, 0>>}, {<<1, 0>>, <<1, 0 - 1>>, <<0, 1>>},
     Ring(<<0, 0>>)}

SearchInit ==
    /\ game_data = DefaultGameData(0)
    /\ caravans = NoCaravans
    /\ raid_screen = DefaultRaidScreen
    /\ save_file = NoSaveFile
    /\ monetization = [gems |-> 0]
    /\ now = 0
    /\ \E a \in SearchHexes, b \in SearchHexes, obstacles \in SearchObstacles :
           call = [op |-> None, a |-> a, b |-> b, obstacles |-> obstacles]
    /\ history = NoHistory

NoSearch == [open_set |-> << >>, g_score |-> << >>, came_from |-> << >>]

\* find_path up to the while loop (utils.py 179-194)
BeginFindPath ==
    /\ call.op = None
    /\ call' = IF call.a \in call.obstacles \/ call.b \in call.obstacles
               THEN [op |-> "find_path", start |-> call.a, goal |-> call.b,
                     obstacles |-> call.obstacles, returned |-> TRUE,
                     path |-> << >>, search |-> NoSearch, pops |-> 0, frame |-> 0]
               ELSE [op |-> "find_path", start |-> call.a, goal |-> call.b,
                     obstacles |-> call.obstacles, returned |-> FALSE,
                     path |-> << >>,
                     search |-> [open_set |-> << <<Heuristic(call.a, call.b), call.a>> >>,
                                 g_score |-> (call.a :> 0),
                                 came_from |-> << >>],
                     pops |-> 0, frame |-> 0]
    /\ UNCHANGED <<game_data, caravans, raid_screen, save_file, monetization, now,
                   history>>

\* one test of `while open_set` and, when it passes, one iteration of the
\* loop body (utils.py 196-220)
SearchStep ==
    /\ call.op = "find_path"
    /\ ~call.returned
    /\ call.pops < MaxPops
    /\ IF call.search.open_set = << >>
       THEN call' = [call EXCEPT !.returned = TRUE, !.path = << >>,
                                 !.search = NoSearch]
       ELSE \E k \in {MinIndex(call.search.open_set)} :
            \E current \in {call.search.open_set[k][2]} :
               IF current = call.goal
               THEN call' = [call EXCEPT
                                !.returned = TRUE,
                                !.path = ReconstructPath(call.search.came_from, current),
                                !.search = NoSearch,
                                !.pops = @ + 1]
               ELSE \E expanded \in
                       {ExpandLoop([call.search EXCEPT
                                       !.open_set = RemoveAt(call.search.open_set, k)],
                                   current, call.goal, call.obstacles,
                                   GetHexNeighbors(current[1], current[2]), 1)} :
                       call' = [call EXCEPT !.search = expanded, !.pops = @ + 1]
    /\ UNCHANGED <<game_data, caravans, raid_screen, save_file, monetization, now,
                   history>>

\* an iteration past the ones recorded: the open set is not empty, so the
\* loop body runs again; the nodes it adds are no longer recorded
SearchOn ==
    /\ call.op = "find_path"
    /\ ~call.returned
    /\ call.pops = MaxPops
    /\ call.search.open_set # << >>
    /\ call' = [call EXCEPT !.frame = 1 - @]
    /\ UNCHANGED <<game_data, caravans, raid_screen, save_file, monetization, now,
                   history>>

SearchNext ==
    \/ BeginFindPath
    \/ SearchStep
    \/ SearchOn

\* the loop runs on by itself once find_path is called
SpecSearch == SearchInit /\ [][SearchNext]_vars /\ WF_vars(SearchNext)

\* start or goal is an obstacle, or a ring of obstacles lies around one of
\* two different hexes
Separated(start, goal, obstacles) ==
    \/ start \in obstacles
    \/ goal \in obstacles
    \/ start # goal /\ Ring(start) \subseteq obstacles
    \/ start # goal /\ Ring(goal) \subseteq obstacles

\* C32: find_path returns, and returns the empty sequence, whenever start or
\* goal is an obstacle or the obstacles separate start from goal, a goal
\* inside a ring of obstacles included.
C32_FindPathReturnsEmptyWhenSeparated ==
    /\ [](/\ call.op = "find_path"
          /\ call.returned
          /\ Separated(call.start, call.goal, call.obstacles)
          => call.path = << >>)
    /\ (/\ call.op = "find_path"
        /\ Separated(call.start, call.goal, call.obstacles))
          ~> (call.op = "find_path" /\ call.returned)

\* every search that is still running after MaxPops iterations is one for
\* a goal inside the ring, started outside of it
SearchesPastMaxPopsAreForRingedGoal ==
    (call.op = "find_path" /\ ~call.returned /\ call.pops = MaxPops) =>
        /\ Ring(call.goal) \subseteq call.obstacles
        /\ call.start \notin Ring(call.goal) \cup {call.goal}


\* coordinates of the hexes the reference search below looks at
RegionCoord == 5

Region == ((0 - RegionCoord)..RegionCoord) \X ((0 - RegionCoord)..RegionCoord)

RECURSIVE ShortestLoop(_, _, _, _, _)
\* breadth-first search: the hexes `frontier` are d steps from the start
ShortestLoop(frontier, seen, goal, obstacles, d) ==
    IF goal \in frontier THEN d
    ELSE IF frontier = {} THEN 0 - 1
    ELSE LET next == {n \in Region \ (seen \cup obstacles) :
                         \E h \in frontier : Heuristic(h, n) = 1}
         IN ShortestLoop(next, seen \cup next, goal, obstacles, d + 1)

\* steps of a shortest path from start to goal that avoids the obstacles
ShortestLength(start, goal, obstacles) ==
    ShortestLoop({start}, {start}, goal, obstacles, 0)

\* C33: a non-empty path find_path returns in the presence of obstacles
\* begins at start, ends at goal, steps between neighbouring hexes, holds no
\* obstacle, and is as short as any path that avoids the obstacles.
C33_PathAroundObstaclesIsShortest ==
    (/\ call.op = "find_path"
     /\ call.returned
     /\ call.obstacles # {}
     /\ call.path # << >>)
    => /\ call.path[1] = call.start
       /\ call.path[Len(call.path)] = call.goal
       /\ \A i \in 1..(Len(call.path) - 1) :
              Heuristic(call.path[i], call.path[i + 1]) = 1
       /\ SeqToSet(call.path) \cap call.obstacles = {}
       /\ Len(call.path) - 1 = ShortestLength(call.start, call.goal, call.obstacles)


----------------------------------------------------------------------------
(* Shares of the loot kinds *)

\* C34: for a scouted caravan with loot value V, every kind but the dominant
\* one receives floor(V * its proportion) and the dominant kind receives the
\* rest of V.
C34_SharesAreProportionsOfValue ==
    (/\ call.op = "get_loot_distribution"
     /\ caravans[call.caravan].is_scouted
     /\ call.result.raised = None)
    => LET c == caravans[call.caravan]
           types == LootTypes(c.caravan_type)
           primary_type == PrimaryType(c.caravan_type)
           floors == [i \in 1..Len(types) |-> (c.loot_value * types[i][2]) \div 10]
           others == {i \in 1..Len(types) : types[i][1] # primary_type}
       IN /\ \A i \in others : call.result.loot[types[i][1]] = floors[i]
          /\ call.result.loot[primary_type] = c.loot_value - SumOver(floors, others)


----------------------------------------------------------------------------
(* Recruitment from slaves and the stocks of the camp *)

\* recruit_from_slaves(num_slaves): the return value and the state after;
\* efficiency in percent
RecruitFromSlaves(gd, num_slaves) ==
    LET available_slaves == Stock(gd.resources, "slaves")
        asked == IF available_slaves < num_slaves THEN available_slaves
                 ELSE num_slaves
        efficiency == 50 + GetHeroBonus(gd.heroes, "recruitment_efficiency")
                         + GetTotalBuildingEffect(gd.camp_buildings, "recruitment")
        available_housing == gd.max_raiders - gd.raiders_available
        raiders_gained == Min((asked * efficiency) \div 100, available_housing)
    IN IF asked <= 0 THEN [ret |-> 0, gd |-> gd]
       ELSE IF raiders_gained > 0
       THEN [ret |-> raiders_gained,
             gd |-> [gd EXCEPT !.resources["slaves"] = @ - asked,
                               !.raiders_available = @ + raiders_gained]]
       ELSE [ret |-> raiders_gained, gd |-> gd]

\* GameData.recruit_from_slaves(num_slaves)
CallRecruitFromSlaves(num_slaves) ==
    /\ LET done == RecruitFromSlaves(game_data, num_slaves) IN
          /\ game_data' = done.gd
          /\ call' = [op |-> "recruit_from_slaves", num_slaves |-> num_slaves,
                      ret |-> done.ret, before |-> game_data]
    /\ UNCHANGED <<caravans, raid_screen, save_file, monetization, now, history>>

\* GameData.spend_resources(cost)
CallSpendResources(cost) ==
    /\ game_data' = [game_data EXCEPT !.resources = SpendResources(@, cost)]
    /\ call' = [op |-> "spend_resources", cost |-> cost,
                ret |-> CanAfford(game_data.resources, cost),
                before |-> game_data]
    /\ UNCHANGED <<caravans, raid_screen, save_file, monetization, now, history>>

\* slaves asked for: the camp screen's 5
RecruitChoices == {5}

\* costs spent through the API: gold a rich camp has, gold and spices no
\* raid on a salt caravan brings
SpendChoices == {[k \in {"gold"} |-> 200],
                 [k \in {"gold", "spices"} |-> IF k = "gold" THEN 20 ELSE 1]}

StockCells == {<<0, 0>>}

\* raids and seconds of game time of a run of the stock specification
StockRaids == 1

StockSeconds == 250

StockNext ==
    \/ /\ history.elapsed < StockSeconds
       /\ \E dt \in TickChoices \ {0}, threshold \in SandstormCheckChoices \ {300} :
              Update(dt, threshold, FALSE, 0, {})
    \/ \E pos \in StockCells : OnGridClick(pos[1], pos[2])
    \/ ResearchTech("weapons", 1)
    \/ \E num_slaves \in RecruitChoices : CallRecruitFromSlaves(num_slaves)
    \/ \E cost \in SpendChoices : CallSpendResources(cost)
    \/ CompleteScouting(0, 0, TRUE, "salt", EscortsRange("salt")[1],
                        LootRange("salt")[1],
                        StraightPath(0, 0, 1, 0, 1, MinWaypoints))
    \/ \E id \in DOMAIN caravans : PrepareRaid(id)
    \/ history.raids < StockRaids /\ ExecuteRaid

SpecStock == CampInit /\ [][StockNext]_vars

\* C35: every resource stock is >= 0 in every state reached by ticks,
\* placements charged by the caller, upgrades, research, recruitment from
\* slaves and raids; spend_resources deducts the cost when the whole cost is
\* affordable and changes nothing otherwise.
C35_StocksNeverNegative ==
    /\ \A k \in DOMAIN game_data.resources : game_data.resources[k] >= 0
    /\ call.op = "spend_resources" =>
          IF \A k \in DOMAIN call.cost : call.before.resources[k] >= call.cost[k]
          THEN /\ call.ret
               /\ \A k \in DOMAIN game_data.resources :
                      game_data.resources[k] =
                          call.before.resources[k]
                              - (IF k \in DOMAIN call.cost THEN call.cost[k] ELSE 0)
          ELSE /\ ~call.ret
               /\ game_data = call.before

\* a cost of gold and spices refused for want of spices, the gold untouched
C35_Witness ==
    /\ call.op = "spend_resources"
    /\ ~call.ret
    /\ "spices" \in DOMAIN call.cost
    /\ call.before.resources["gold"] >= call.cost["gold"]
    /\ game_data.resources["gold"] = call.before.resources["gold"]


----------------------------------------------------------------------------
(* The housing specification: slaves taken from a sandworm, recruitment,   *)
(* a tent, a well, a sandstorm                                             *)

\* slaves asked for through the API: more than the housing can take
ManySlaves == 100

\* the clock passes the first sandstorm check
PassHousingTime ==
    /\ now = 0
    /\ AdvanceTime(StormSeconds)

HousingNext ==
    \/ CompleteScouting(0, 0, TRUE, "sandworm", EscortsRange("sandworm")[1],
                        LootRange("sandworm")[1],
                        StraightPath(0, 0, 1, 0, 1, MinWaypoints))
    \/ \E id \in DOMAIN caravans : PrepareRaid(id)
    \/ history.raids < StockRaids /\ ExecuteRaid
    \/ CallRecruitFromSlaves(ManySlaves)
    \/ CallPlaceBuilding(0, 0, "tent")
    \/ CallPlaceBuilding(0, 1, "well")
    \/ CallUpgradeBuilding(0, 0)
    \/ PassHousingTime
    \/ Update(0, 300, TRUE, 30, {<<0, 0>>})

SpecHousing == RaidInit /\ [][HousingNext]_vars

\* C36: raiders_available never exceeds max_raiders in a state reached by
\* recruitment from slaves, placements, upgrades, sandstorm damage, raids and
\* ticks, and recruit_from_slaves returns no negative gain.
C36_RaidersWithinHousing ==
    /\ game_data.raiders_available <= game_data.max_raiders
    /\ call.op = "recruit_from_slaves" => call.ret >= 0


----------------------------------------------------------------------------
(* Building levels under sandstorms *)

\* C37: every building's level lies within 1..max level in every state
\* reached by placements, upgrades and sandstorms, and a sandstorm start
\* lowers a building's level by one at most and removes no building.
C37_LevelsStayWithinRange ==
    /\ [](\A pos \in DOMAIN game_data.camp_buildings :
             /\ game_data.camp_buildings[pos].level >= 1
             /\ game_data.camp_buildings[pos].level <= MaxLevel)
    /\ [][(call'.op = "update" /\ call'.started)
             => /\ DOMAIN game_data'.camp_buildings = DOMAIN game_data.camp_buildings
                /\ \A pos \in DOMAIN game_data.camp_buildings :
                      /\ game_data'.camp_buildings[pos].level
                             <= game_data.camp_buildings[pos].level
                      /\ game_data'.camp_buildings[pos].level
                             >= game_data.camp_buildings[pos].level - 1]_vars

\* a sandstorm has just started and left a building at level 1 whose stored
\* upgrade cost is still that of level 2, the level it had
C37_Witness ==
    /\ call.op = "update"
    /\ call.started
    /\ \E pos \in DOMAIN game_data.camp_buildings :
          LET building == game_data.camp_buildings[pos] IN
             /\ building.level = 1
             /\ building.upgrade_cost = CalculateUpgradeCost(building.building_type, 2)

----------------------------------------------------------------------------
(* The older-record specification: the save file holds a record that an *)
(* earlier version of save_game wrote, which lacks some of the fields   *)

\* the dict d without the given keys
Without(d, keys) == [k \in DOMAIN d \ keys |-> d[k]]

\* the fields an older record lacks: top-level keys, keys of the dict under
\* 'resources', keys of each entry under 'visible_caravans'
OlderFormats ==
    { [top |-> {}, resources |-> {}, caravan |-> {}],
      [top |-> {"daily_event_active", "daily_event_end_time",
                "weekly_event_active", "weekly_event_end_time"},
       resources |-> {}, caravan |-> {}],
      [top |-> {}, resources |-> {"slaves"}, caravan |-> {}],
      [top |-> {}, resources |-> {}, caravan |-> {"movement_path"}] }

\* the record json.load gives for a file of that format
OlderRecord(save_data, format) ==
    LET cut == Without(save_data, format.top) IN
    [k \in DOMAIN cut |->
        IF k = "resources" THEN Without(cut[k], format.resources)
        ELSE IF k = "visible_caravans"
        THEN [i \in DOMAIN cut[k] |-> Without(cut[k][i], format.caravan)]
        ELSE cut[k]]

\* the state is left on disk in an older format
SaveOlderRecord(format) ==
    /\ save_file' = [state |-> "written",
                     data |-> OlderRecord(SaveData(game_data, caravans), format)]
    /\ history' = [history EXCEPT
                      !.saved = [made |-> TRUE, game_data |-> game_data,
                                 caravans |-> caravans,
                                 boss_damage |-> history.boss_damage]]
    /\ call' = [op |-> "save_game", format |-> format]
    /\ UNCHANGED <<game_data, caravans, raid_screen, monetization, now>>

\* game seconds a run of this specification may cover
OlderSeconds == 250

OlderNext ==
    \/ \E event_type \in {"caravan_alert", "raid_bonus"} :
          StartDailyEvent(event_type, 2, 0 - 1, EscortsRange("gold")[1],
                          LootRange("gold")[1],
                          StraightPath(2, 0 - 1, 1, 0, 1, MinWaypoints))
    \/ \E format \in OlderFormats : SaveOlderRecord(format)
    \/ Restart(1)
    \/ history.elapsed < OlderSeconds /\ Update(OlderSeconds, 900, FALSE, 0, {})

SpecOlder == EventInit /\ [][OlderNext]_vars

\* update(dt) on the state gd raises: generate_resources or
\* update_water_consumption indexes a dict with a key it lacks
UpdateRaises(gd, dt) ==
    \/ GenerateResources(gd, dt).raised # None
    \/ "water" \notin DOMAIN gd.resources

\* C38: right after a load of a record from which fields are absent, no
\* exception was caught, every resource has a stock, which is the initial one
\* if the record had none for it, the daily-event fields the record lacks
\* are at their initial values, the caravans of the record are all there,
\* and update(dt) does not raise.
C38_AbsentFieldsLoadAsDefaults ==
    (call.op = "load_game" /\ save_file.state = "written") =>
        LET save_data == save_file.data IN
        /\ call.raised = None
        /\ \A k \in ResourceNames :
              /\ k \in DOMAIN game_data.resources
              /\ k \notin DOMAIN save_data.resources =>
                     game_data.resources[k] = DefaultResources[k]
        /\ "daily_event_active" \notin DOMAIN save_data =>
               /\ ~game_data.daily_event_active
               /\ game_data.daily_event_end_time = 0
        /\ Len(game_data.visible_caravans) = Len(save_data.visible_caravans)
        /\ \A dt \in TickChoices : ~UpdateRaises(game_data, dt)

----------------------------------------------------------------------------
(* caravan.py: update_movement, _move_to_next_waypoint; the movement *)
(* specification: a caravan on the map is moved as the clock runs    *)

\* Caravan._move_to_next_waypoint; dq, dr, distance and n are the draws of
\* the _generate_movement_path that runs when the last waypoint is reached
MoveToNextWaypoint(c, dq, dr, distance, n) ==
    IF c.movement_path = << >> THEN c
    ELSE LET next == c.movement_path[1]
             rest == Tail(c.movement_path)
         IN [c EXCEPT !.q = next[1],
                      !.r = next[2],
                      !.movement_path =
                          IF rest = << >>
                          THEN StraightPath(next[1], next[2], dq, dr, distance, n)
                          ELSE rest]

\* Caravan.update_movement(current_time)
UpdateMovement(c, current_time, dq, dr, distance, n) ==
    IF current_time - c.last_move_time >= MoveInterval(c.caravan_type)
    THEN [MoveToNextWaypoint(c, dq, dr, distance, n)
             EXCEPT !.last_move_time = current_time]
    ELSE c

\* caravan.update_movement(time.time()) on a caravan of the map
\* (map_screen._update_caravans)
CallUpdateMovement(id, dq, dr, distance, n) ==
    /\ id \in DOMAIN caravans
    /\ caravans' = [caravans EXCEPT
                       ![id] = UpdateMovement(@, now, dq, dr, distance, n)]
    /\ call' = [op |-> "update_movement", id |-> id, current_time |-> now,
                before |-> caravans[id]]
    /\ UNCHANGED <<game_data, raid_screen, save_file, monetization, now, history>>

\* seconds of wall-clock time a run of this specification may cover, and the
\* seconds between two looks at the clock
MoveSeconds == 200

MoveSteps == {20, 100}

\* the formats the state is saved in: the current one and one without the
\* caravans' movement paths
MoveFormats ==
    { [top |-> {}, resources |-> {}, caravan |-> {}],
      [top |-> {}, resources |-> {}, caravan |-> {"movement_path"}] }

MoveNext ==
    \/ /\ game_data.visible_caravans = << >>
       /\ StartDailyEvent("caravan_alert", 0, 0, EscortsRange("gold")[1],
                          LootRange("gold")[1], StraightPath(0, 0, 1, 0, 1, 2))
    \/ \E id \in DOMAIN caravans, d \in {<<1, 0>>, <<0, 0 - 1>>} :
          CallUpdateMovement(id, d[1], d[2], 1, 2)
    \/ \E seconds \in MoveSteps : now < MoveSeconds /\ AdvanceTime(seconds)
    \/ \E format \in MoveFormats :
          save_file.state = "absent" /\ SaveOlderRecord(format)
    \/ call.op # "load_game" /\ Restart(1)

SpecMove == EventInit /\ [][MoveNext]_vars

\* C39: a call of update_movement(now) leaves the caravan as it was if
\* now - last_move_time < move_interval; otherwise the caravan stands on its
\* former first waypoint, last_move_time is now, and the path is the former
\* one without that waypoint, or a new one if that leaves none; after
\* the call the path is non-empty in either case.
C39_OneWaypointPerDueCall ==
    [][call'.op = "update_movement" =>
          LET old == call'.before
              new == caravans'[call'.id]
          IN /\ new.movement_path # << >>
             /\ IF now - old.last_move_time < MoveInterval(old.caravan_type)
                THEN new = old
                ELSE /\ old.movement_path # << >>
                     /\ <<new.q, new.r>> = old.movement_path[1]
                     /\ new.last_move_time = now
                     /\ \/ new.movement_path = Tail(old.movement_path)
                        \/ Tail(old.movement_path) = << >>]_vars

----------------------------------------------------------------------------
(* utils.py: ProceduralGenerator.generate_desert_features; the feature *)
(* specification runs it once on drawn counts and positions            *)

\* the list generate_desert_features returns: oases and ruins are the
\* (q, r) pairs drawn in the two loops, in order
GenerateDesertFeatures(oases, ruins) ==
    [i \in 1..(Len(oases) + Len(ruins)) |->
        IF i <= Len(oases)
        THEN <<oases[i][1], oases[i][2], "oasis">>
        ELSE <<ruins[i - Len(oases)][1], ruins[i - Len(oases)][2], "ruins">>]

\* the radius the features are generated for
FeatureRadius == 1

\* draws of random.randint(2, 5) and random.randint(1, 3) tried
OasisChoices == {2}

RuinsChoices == {1, 2}

\* generate_desert_features(radius): q and r of every feature are draws of
\* random.randint(-radius, radius)
CallGenerateDesertFeatures(radius) ==
    /\ call.op = None
    /\ \E num_oases \in OasisChoices, num_ruins \in RuinsChoices :
       \E oases \in [1..num_oases -> RandInt(0 - radius, radius)
                                     \X RandInt(0 - radius, radius)],
          ruins \in [1..num_ruins -> RandInt(0 - radius, radius)
                                     \X RandInt(0 - radius, radius)] :
          call' = [op |-> "generate_desert_features", radius |-> radius,
                   ret |-> GenerateDesertFeatures(oases, ruins)]
    /\ UNCHANGED <<game_data, caravans, raid_screen, save_file, monetization,
                   now, history>>

FeatureNext == CallGenerateDesertFeatures(FeatureRadius)

SpecFeatures == EventInit /\ [][FeatureNext]_vars

\* C40: what generate_desert_features(radius) returned has at most one
\* feature per hex, and every feature lies within hex distance radius of
\* the origin.
C40_OneFeaturePerHexWithinRadius ==
    call.op = "generate_desert_features" =>
        LET features == call.ret IN
        /\ \A i, j \in DOMAIN features :
              i # j => <<features[i][1], features[i][2]>>
                           # <<features[j][1], features[j][2]>>
        /\ \A i \in DOMAIN features :
              GetHexDistance(features[i][1], features[i][2], 0, 0) <= call.radius

============================================================================
